---------------------------- MODULE Spec2Model ----------------------------
(***************************************************************************)
(* A model of @pas7/llm-seo: canonical URL resolution, the canonical       *)
(* bundle, the llms.txt / llms-full.txt / citations.json generators and    *)
(* the `generate` and `check` CLI commands.                                *)
(*                                                                         *)
(* Strings are sequences of one-character strings, so that the string      *)
(* operations of the source (split, startsWith, localeCompare, ...) are    *)
(* computed and not assumed.  An optional value (undefined in the source)  *)
(* is a sequence of length 0 (absent) or 1 (present).                      *)
(***************************************************************************)
EXTENDS Integers, Sequences, FiniteSets, TLC

VARIABLES
    cfg,        \* the configuration (LlmsSeoConfig) the run works on
    bundle,     \* result of the last createCanonicalBundleFromConfig call, if any
    baseline,   \* result of the first such call on this logical input, if any
    configFile, \* the config file: "ok", "missing" or "unparsable"
    outputFiles, \* the output files: path -> content, None for a missing file
    run,        \* what the last command left, None before it is looked at
    clock,      \* the system clock
    memo,       \* the first result of each kind of generator call
    last,       \* the kind and the result of the latest generator call
    call,       \* a call of a pure function: its name and its arguments
    ret         \* what that call returned, None while it has not returned

vars == <<cfg, bundle, baseline, configFile, outputFiles, run, clock, memo, last, call, ret>>

\* the variables of the command line
cliVars == <<configFile, outputFiles, run>>
\* the variables of the generator calls
genVars == <<clock, memo, last>>
\* the variables of a call of a pure function
fnVars == <<call, ret>>

(***************************************************************************)
(* Optional values.                                                        *)
(***************************************************************************)
None == <<>>
Some(v) == <<v>>
IsSome(o) == Len(o) > 0
Get(o) == o[1]
\* a ?? b
OrElse(o, d) == IF IsSome(o) THEN o[1] ELSE d

(***************************************************************************)
(* String primitives (ECMAScript String.prototype).                        *)
(***************************************************************************)
StartsWith(s, p) == Len(p) <= Len(s) /\ SubSeq(s, 1, Len(p)) = p
EndsWith(s, p) == Len(p) <= Len(s) /\ SubSeq(s, Len(s) - Len(p) + 1, Len(s)) = p
\* s.slice(n) with 0-based n
Slice(s, n) == SubSeq(s, n + 1, Len(s))
\* s.includes(p)
Includes(s, p) == \E i \in 1..(Len(s) - Len(p) + 1) : SubSeq(s, i, i + Len(p) - 1) = p

(***************************************************************************)
(* A value that is used more than once is bound as the parameter of a      *)
(* (local) operator: TLC computes a parameter once, and a sequence built   *)
(* by Tuple has its elements computed once.                                *)
(***************************************************************************)
\* the sequence f, with its elements computed
Tuple(f) == f \o <<>>

MinOf(S) == CHOOSE i \in S : \A j \in S : i <= j

RECURSIVE Join(_, _)
\* parts.join(sep)
Join(parts, sep) ==
    IF Len(parts) = 0 THEN <<>>
    ELSE IF Len(parts) = 1 THEN parts[1]
    ELSE parts[1] \o sep \o Join(Tail(parts), sep)

\* positions of the one-character separator c in s
SepPositions(s, c) == {i \in 1..Len(s) : s[i] = c}

RECURSIVE SplitFrom(_, _, _)
\* the pieces of s from position from on, cut at the positions seps
SplitFrom(s, seps, from) ==
    IF seps = {} THEN <<SubSeq(s, from, Len(s))>>
    ELSE <<SubSeq(s, from, MinOf(seps) - 1)>>
            \o SplitFrom(s, seps \ {MinOf(seps)}, MinOf(seps) + 1)

\* s.split(c) for a one-character separator
Split(s, c) == SplitFrom(s, SepPositions(s, c), 1)

RECURSIVE FilterNonEmpty(_)
\* parts.filter((part) => part.length > 0)
FilterNonEmpty(parts) ==
    IF parts = <<>> THEN <<>>
    ELSE IF Len(Head(parts)) > 0 THEN <<Head(parts)>> \o FilterNonEmpty(Tail(parts))
    ELSE FilterNonEmpty(Tail(parts))

RECURSIVE StripLeading(_, _)
\* s.replace(/^c+/, '')
StripLeading(s, c) == IF Len(s) > 0 /\ s[1] = c THEN StripLeading(Tail(s), c) ELSE s

RECURSIVE StripTrailing(_, _)
\* s.replace(/c+$/, '')
StripTrailing(s, c) ==
    IF Len(s) > 0 /\ s[Len(s)] = c THEN StripTrailing(SubSeq(s, 1, Len(s) - 1), c) ELSE s

Lowers == <<"a","b","c","d","e","f","g","h","i","j","k","l","m",
            "n","o","p","q","r","s","t","u","v","w","x","y","z">>
Uppers == <<"A","B","C","D","E","F","G","H","I","J","K","L","M",
            "N","O","P","Q","R","S","T","U","V","W","X","Y","Z">>
Digits == <<"0","1","2","3","4","5","6","7","8","9">>

IsIn(c, tuple) == \E i \in 1..Len(tuple) : tuple[i] = c
IndexIn(c, tuple) == CHOOSE i \in 1..Len(tuple) : tuple[i] = c
IsDigit(c) == IsIn(c, Digits)
IsLetter(c) == IsIn(c, Lowers) \/ IsIn(c, Uppers)

\* c.toLowerCase() for one character
LowerChar(c) == IF IsIn(c, Uppers) THEN Lowers[IndexIn(c, Uppers)] ELSE c
\* s.toLowerCase()
ToLowerCase(s) == Tuple([i \in 1..Len(s) |-> LowerChar(s[i])])

(***************************************************************************)
(* String.prototype.localeCompare(b, 'en', {sensitivity:'case',            *)
(* numeric:true}): the CLDR root collation at primary strength with the    *)
(* case level on and numeric ordering.  Characters are compared by their   *)
(* primary weight (punctuation < digits < letters, letters without regard  *)
(* to case); a run of digits is compared by its numeric value (leading     *)
(* zeros carry no weight); strings with equal primary keys are then        *)
(* ordered by case, lower case first.                                      *)
(***************************************************************************)
CollationOrder ==
    <<" ", "_", "-", ",", ";", ":", "!", "?", ".", "'", "(", ")", "[", "]",
      "{", "}", "@", "*", "/", "&", "#", "%", "^", "+", "<", "=", ">",
      "|", "~", "$">>

\* primary weight of a character that is not a digit
PrimaryWeight(c) ==
    IF IsIn(c, CollationOrder) THEN IndexIn(c, CollationOrder)
    ELSE IF IsIn(c, Lowers) THEN 100 + IndexIn(c, Lowers)
    ELSE IF IsIn(c, Uppers) THEN 100 + IndexIn(c, Uppers)
    ELSE 0

\* the weight that opens a number: after all punctuation, before all letters
NumericLead == Len(CollationOrder) + 1

\* index of the last character of the digit run that starts at i
RECURSIVE DigitRunEnd(_, _)
DigitRunEnd(s, i) == IF i < Len(s) /\ IsDigit(s[i + 1]) THEN DigitRunEnd(s, i + 1) ELSE i

\* the weights of a number written with the digits given (no leading zeros)
DigitRunKey(digits) ==
    <<NumericLead, Len(digits)>>
        \o Tuple([k \in 1..Len(digits) |-> IndexIn(digits[k], Digits) - 1])

RECURSIVE PrimaryKeyFrom(_, _)
PrimaryKeyFrom(s, i) ==
    IF i > Len(s) THEN <<>>
    ELSE IF IsDigit(s[i])
         THEN DigitRunKey(StripLeading(SubSeq(s, i, DigitRunEnd(s, i)), "0"))
                 \o PrimaryKeyFrom(s, DigitRunEnd(s, i) + 1)
    ELSE <<PrimaryWeight(s[i])>> \o PrimaryKeyFrom(s, i + 1)

PrimaryKey(s) == PrimaryKeyFrom(s, 1)

RECURSIVE CaseKey(_)
\* the case level: one bit per letter, lower case (0) before upper case (1)
CaseKey(s) ==
    IF s = <<>> THEN <<>>
    ELSE IF IsIn(Head(s), Lowers) THEN <<0>> \o CaseKey(Tail(s))
    ELSE IF IsIn(Head(s), Uppers) THEN <<1>> \o CaseKey(Tail(s))
    ELSE CaseKey(Tail(s))

\* lexicographic comparison of two sequences of numbers: -1, 0 or 1
LexCompare(a, b) ==
    LET AtFirst(diff) ==
            IF diff = {}
            THEN (IF Len(a) < Len(b) THEN -1 ELSE IF Len(a) > Len(b) THEN 1 ELSE 0)
            ELSE IF a[MinOf(diff)] < b[MinOf(diff)] THEN -1 ELSE 1
    IN  AtFirst({i \in 1..Len(a) : i <= Len(b) /\ a[i] # b[i]})

\* the collation key of a string: its primary key and its case key
CollationKey(s) == <<PrimaryKey(s), CaseKey(s)>>

compareCollationKeys(ka, kb) ==
    LET Decide(primary) == IF primary # 0 THEN primary ELSE LexCompare(ka[2], kb[2])
    IN  Decide(LexCompare(ka[1], kb[1]))

compareStrings(a, b) == compareCollationKeys(CollationKey(a), CollationKey(b))

(***************************************************************************)
(* Array.prototype.sort is stable: elements that compare equal keep their  *)
(* input order.  For a comparator that is a total preorder the result is   *)
(* the one arrangement in which i comes before j exactly when i compares   *)
(* lower than j, or equal to it with i first in the input.  cmp[i][j] is   *)
(* the comparator's result on the elements at input positions i and j.     *)
(***************************************************************************)
StableSort(items, cmp) ==
    LET Precedes(j, i) == cmp[j][i] < 0 \/ (cmp[j][i] = 0 /\ j < i)
        Rank(i) == 1 + Cardinality({j \in 1..Len(items) : j # i /\ Precedes(j, i)})
        Arrange(pos) ==
            Tuple([p \in 1..Len(items) |-> items[CHOOSE i \in 1..Len(items) : pos[i] = p]])
    IN  Arrange(Tuple([i \in 1..Len(items) |-> Rank(i)]))

\* sortBy(items, keyFn): [...items].sort((a, b) => compareStrings(keyFn(a), keyFn(b)));
\* keys[i] is keyFn(items[i])
sortBy(items, keys) ==
    LET Compare(ck) ==
            Tuple([i \in 1..Len(items) |->
                     Tuple([j \in 1..Len(items) |-> compareCollationKeys(ck[i], ck[j])])])
    IN  StableSort(items, Compare(Tuple([i \in 1..Len(items) |-> CollationKey(keys[i])])))

\* sortStrings(items): [...items].sort(compareStrings)
sortStrings(items) == sortBy(items, items)

\* stableSortStrings(items): the same comparator, written out in the source
stableSortStrings(items) == sortBy(items, items)

(***************************************************************************)
(* new URL(u), for http and https URLs of the shape                        *)
(* scheme://host[:port][/path][?query][#hash].  The parser lower-cases the *)
(* host and drops a default port; anything else does not parse (ok is      *)
(* FALSE, a TypeError in the source).                                      *)
(***************************************************************************)
\* s up to, not including, its first character that is in stops
BeforeAny(s, stops) ==
    LET Cut(at) == IF at = {} THEN s ELSE SubSeq(s, 1, MinOf(at) - 1)
    IN  Cut({i \in 1..Len(s) : s[i] \in stops})

\* s from its first character that is in stops on (empty if there is none)
FromFirst(s, stops) ==
    LET Cut(at) == IF at = {} THEN <<>> ELSE SubSeq(s, MinOf(at), Len(s))
    IN  Cut({i \in 1..Len(s) : s[i] \in stops})

UrlProtocol(u) ==
    IF StartsWith(u, <<"h","t","t","p","s",":","/","/">>) THEN <<"h","t","t","p","s",":">>
    ELSE IF StartsWith(u, <<"h","t","t","p",":","/","/">>) THEN <<"h","t","t","p",":">>
    ELSE <<>>

\* the URL record, from the scheme, the authority and what follows it
ParsedUrl(protocol, authority, after) ==
    LET IsDefaultPort(portRaw) ==
            \/ (protocol = <<"h","t","t","p","s",":">> /\ portRaw = <<"4","4","3">>)
            \/ (protocol = <<"h","t","t","p",":">> /\ portRaw = <<"8","0">>)
        Build(hostRaw, portRaw, hostname, port, path, search, hash) ==
            [ok |-> /\ Len(protocol) > 0
                    /\ Len(hostRaw) > 0
                    /\ \A i \in 1..Len(hostRaw) :
                          IsLetter(hostRaw[i]) \/ IsDigit(hostRaw[i])
                             \/ hostRaw[i] \in {".", "-"}
                    /\ \A i \in 1..Len(portRaw) : IsDigit(portRaw[i]),
             protocol |-> protocol,
             hostname |-> hostname,
             port |-> port,
             host |-> IF Len(port) > 0 THEN hostname \o <<":">> \o port ELSE hostname,
             pathname |-> IF Len(path) = 0 THEN <<"/">> ELSE path,
             search |-> IF Len(search) = 1 THEN <<>> ELSE search,
             hash |-> IF Len(hash) = 1 THEN <<>> ELSE hash]
        WithPort(hostRaw, portRaw) ==
            Build(hostRaw, portRaw, ToLowerCase(hostRaw),
                  IF IsDefaultPort(portRaw) THEN <<>> ELSE portRaw,
                  BeforeAny(after, {"?", "#"}),
                  FromFirst(BeforeAny(after, {"#"}), {"?"}),
                  FromFirst(after, {"#"}))
    IN  WithPort(BeforeAny(authority, {":"}),
                 IF FromFirst(authority, {":"}) = <<>> THEN <<>>
                 ELSE Tail(FromFirst(authority, {":"})))

ParseUrl(u) ==
    LET Rest(rest) ==
            ParsedUrl(UrlProtocol(u), BeforeAny(rest, {"/", "?", "#"}),
                      FromFirst(rest, {"/", "?", "#"}))
    IN  Rest(Slice(u, Len(UrlProtocol(u)) + 2))

(***************************************************************************)
(* core/normalize/url.ts                                                   *)
(***************************************************************************)
RECURSIVE CollapseSlashes(_)
\* s.replace(/\/{2,}/g, '/')
CollapseSlashes(s) ==
    IF Len(s) < 2 THEN s
    ELSE IF s[1] = "/" /\ s[2] = "/" THEN CollapseSlashes(Tail(s))
    ELSE <<s[1]>> \o CollapseSlashes(Tail(s))

RECURSIVE ResolveSegments(_, _)
\* the loop over parts: '.' and '' are skipped, '..' pops, the rest is pushed
ResolveSegments(parts, segments) ==
    IF parts = <<>> THEN segments
    ELSE IF Head(parts) = <<".">> \/ Head(parts) = <<>>
         THEN ResolveSegments(Tail(parts), segments)
    ELSE IF Head(parts) = <<".", ".">>
         THEN ResolveSegments(Tail(parts),
                 IF Len(segments) > 0 THEN SubSeq(segments, 1, Len(segments) - 1)
                 ELSE segments)
    ELSE ResolveSegments(Tail(parts), Append(segments, Head(parts)))

\* slashes are collapsed and the dot segments stay
normalizePath_CollapseOnly(path, preserveTrailingSlash) ==
    IF path = <<>> THEN <<"/">>
    ELSE CollapseSlashes(IF StartsWith(path, <<"/">>) THEN path ELSE <<"/">> \o path)

normalizePath(path, preserveTrailingSlash) ==
    LET hadTrailingSlash == EndsWith(path, <<"/">>) /\ path # <<"/">>
        Restore(result) ==
            IF preserveTrailingSlash /\ hadTrailingSlash /\ result # <<"/">>
            THEN result \o <<"/">>
            ELSE result
        Segments(normalized) == ResolveSegments(Split(normalized, "/"), <<>>)
    IN  IF path = <<>> \/ path = <<"/">> THEN <<"/">>
        ELSE Restore(<<"/">> \o Join(Segments(CollapseSlashes(
                         IF StartsWith(path, <<"/">>) THEN path ELSE <<"/">> \o path)),
                                     <<"/">>))

StripSlashes(part) == StripTrailing(StripLeading(part, "/"), "/")

joinUrlParts(parts) ==
    LET Joined(filteredParts) ==
            Join(FilterNonEmpty(Tuple([i \in 1..Len(filteredParts) |->
                                          StripSlashes(filteredParts[i])])), <<"/">>)
        Result(joined) == IF Len(joined) > 0 THEN <<"/">> \o joined ELSE <<"/">>
    IN  IF Len(parts) = 0 \/ Len(FilterNonEmpty(parts)) = 0 THEN <<"/">>
        ELSE Result(Joined(FilterNonEmpty(parts)))

\* what normalizeUrl yields when it throws TypeError(`Invalid baseUrl: ...`)
InvalidBaseUrl == <<"TypeError: Invalid baseUrl">>

normalizeUrl(baseUrl, path, trailingSlash, stripQuery, stripHash) ==
    LET FinalPath(normalizedPath) ==
            IF trailingSlash = "always"
            THEN (IF ~EndsWith(normalizedPath, <<"/">>) THEN normalizedPath \o <<"/">>
                  ELSE normalizedPath)
            ELSE IF trailingSlash = "never"
            THEN (IF normalizedPath # <<"/">> /\ EndsWith(normalizedPath, <<"/">>)
                  THEN SubSeq(normalizedPath, 1, Len(normalizedPath) - 1)
                  ELSE normalizedPath)
            ELSE normalizedPath
        Hostname(parsedBase) ==
            IF Len(parsedBase.port) > 0
            THEN ToLowerCase(parsedBase.hostname) \o <<":">> \o parsedBase.port
            ELSE ToLowerCase(parsedBase.hostname)
        WithHash(parsedBase, withQuery) ==
            IF ~stripHash /\ Len(parsedBase.hash) > 0 THEN withQuery \o parsedBase.hash
            ELSE withQuery
        WithQuery(parsedBase, fullUrl) ==
            WithHash(parsedBase,
                     IF ~stripQuery /\ Len(parsedBase.search) > 0
                     THEN fullUrl \o parsedBase.search ELSE fullUrl)
        Build(parsedBase) ==
            IF ~parsedBase.ok THEN InvalidBaseUrl
            ELSE WithQuery(parsedBase,
                           ToLowerCase(parsedBase.protocol) \o <<"/", "/">>
                              \o Hostname(parsedBase)
                              \o FinalPath(normalizePath(path, trailingSlash = "preserve")))
    IN  Build(ParseUrl(baseUrl))

(***************************************************************************)
(* core/normalize/sort.ts: sortUrlsByPath                                  *)
(***************************************************************************)
countPathSegments(url) ==
    LET Count(path) == IF Len(path) = 0 THEN 0 ELSE Len(Split(path, "/"))
        Path(parsed) == StripSlashes(IF parsed.ok THEN parsed.pathname ELSE url)
    IN  Count(Path(ParseUrl(url)))

sortUrlsByPath_Alphabetical(urls) == sortStrings(urls)

sortUrlsByPath(urls) ==
    LET Compare(segs, keys) ==
            Tuple([i \in 1..Len(urls) |->
                     Tuple([j \in 1..Len(urls) |->
                              IF segs[i] # segs[j] THEN segs[i] - segs[j]
                              ELSE compareCollationKeys(keys[i], keys[j])])])
    IN  StableSort(urls,
                   Compare(Tuple([i \in 1..Len(urls) |-> countPathSegments(urls[i])]),
                           Tuple([i \in 1..Len(urls) |-> CollationKey(urls[i])])))

(***************************************************************************)
(* core/canonical/locale.ts                                                *)
(***************************************************************************)
\* Returns Some(locale), or None where the source returns null.
selectCanonicalLocale(defaultLocale, availableLocales) ==
    LET Select(validLocales) ==
            IF Len(validLocales) = 0 THEN None
            ELSE IF Len(defaultLocale) > 0 /\ IsIn(defaultLocale, validLocales)
                 THEN Some(defaultLocale)
            ELSE Some(stableSortStrings(validLocales)[1])
    IN  IF Len(availableLocales) = 0 THEN None
        ELSE Select(FilterNonEmpty(availableLocales))

(***************************************************************************)
(* core/canonical/canonical-from-manifest.ts (route-style aware builder)   *)
(***************************************************************************)
RECURSIVE DedupeFrom(_, _)
DedupeFrom(urls, seen) ==
    IF urls = <<>> THEN <<>>
    ELSE IF Head(urls) \in seen THEN DedupeFrom(Tail(urls), seen)
    ELSE <<Head(urls)>> \o DedupeFrom(Tail(urls), seen \cup {Head(urls)})

dedupeUrls_Keep(urls) == urls

\* [...new Set(urls)]: first occurrences, in insertion order
dedupeUrls(urls) == DedupeFrom(urls, {})

buildBaseUrlWithSubdomain(baseUrl, locale, strategy, defaultLocale) ==
    LET WithSubdomain(parsed) ==
            IF ~parsed.ok THEN baseUrl
            ELSE parsed.protocol \o <<"/", "/">> \o locale \o <<".">> \o parsed.host
    IN  IF strategy # "subdomain" \/ locale = defaultLocale THEN baseUrl
        ELSE WithSubdomain(ParseUrl(baseUrl))

\* every locale strategy is routed as a prefix
inferRouteStyleFromLocaleStrategy_Prefix(strategy) == "prefix"

inferRouteStyleFromLocaleStrategy(strategy) ==
    IF strategy # "prefix" THEN "custom" ELSE "prefix"

\* every route style puts the locale in front
buildPathFromRouteStyle_PrefixOnly(routeStyle, sectionPath, slug, locale, defaultLocale) ==
    IF locale # defaultLocale THEN joinUrlParts(<<locale, sectionPath, slug>>)
    ELSE joinUrlParts(<<sectionPath, slug>>)

\* the default locale gets its segment too
buildPathFromRouteStyle_AlwaysLocale(routeStyle, sectionPath, slug, locale, defaultLocale) ==
    IF routeStyle = "locale-segment" THEN joinUrlParts(<<sectionPath, locale, slug>>)
    ELSE IF routeStyle = "suffix" THEN joinUrlParts(<<sectionPath, slug, locale>>)
    ELSE IF routeStyle = "custom" THEN joinUrlParts(<<sectionPath, slug>>)
    ELSE joinUrlParts(<<locale, sectionPath, slug>>)

buildPathFromRouteStyle(routeStyle, sectionPath, slug, locale, defaultLocale) ==
    LET includeLocale == locale # defaultLocale
    IN  IF routeStyle = "locale-segment" THEN joinUrlParts(<<sectionPath, locale, slug>>)
        ELSE IF routeStyle = "suffix"
             THEN (IF includeLocale THEN joinUrlParts(<<sectionPath, slug, locale>>)
                   ELSE joinUrlParts(<<sectionPath, slug>>))
        ELSE IF routeStyle = "custom" THEN joinUrlParts(<<sectionPath, slug>>)
        ELSE IF includeLocale THEN joinUrlParts(<<locale, sectionPath, slug>>)
        ELSE joinUrlParts(<<sectionPath, slug>>)

normalizeSectionPath(sectionPath) ==
    IF Len(sectionPath) = 0 \/ sectionPath = <<"/">> THEN <<>>
    ELSE IF StartsWith(sectionPath, <<"/">>) THEN sectionPath
    ELSE <<"/">> \o sectionPath

normalizeItemSlug(slug, sectionPath) ==
    LET Relative(relative) == IF Len(relative) > 0 THEN <<"/">> \o relative ELSE <<"/">>
        Strip(normalizedSlug) ==
            IF Len(sectionPath) = 0 THEN normalizedSlug
            ELSE IF normalizedSlug = sectionPath THEN <<"/">>
            ELSE IF StartsWith(normalizedSlug, sectionPath \o <<"/">>)
                 THEN Relative(Slice(normalizedSlug, Len(sectionPath) + 1))
            ELSE normalizedSlug
    IN  Strip(IF StartsWith(slug, <<"/">>) THEN slug ELSE <<"/">> \o slug)

\* The custom path functions a config may carry (the ones used in the
\* repository's tests): ({ locale, slug }) => `/custom/${locale}${slug}`
pathnameFor(fn, args) ==
    <<"/","c","u","s","t","o","m","/">> \o args.locale \o args.slug

\* the override is taken as a base URL and normalized with the slug
createCanonicalUrlForItem_Normalized(item, options) ==
    normalizeUrl(OrElse(item.canonicalOverride, options.baseUrl), item.slug,
                 options.trailingSlash, TRUE, TRUE)

\* options: [baseUrl, routePrefix, defaultLocale, trailingSlash, localeStrategy,
\*           routeStyle, sectionName, sectionPath, pathnameFor], the optional
\* ones as optional values
createCanonicalUrlForItem(item, options) ==
    LET defaultLocale == options.defaultLocale
        ResolvedPath(locale, sectionBase, effectiveRouteStyle, normalizedSlug) ==
            IF effectiveRouteStyle = "custom" /\ IsSome(options.pathnameFor)
            THEN pathnameFor(Get(options.pathnameFor),
                             [item |-> item,
                              sectionName |-> OrElse(options.sectionName, <<>>),
                              slug |-> normalizedSlug,
                              locale |-> locale,
                              defaultLocale |-> defaultLocale,
                              sectionPath |-> sectionBase])
            ELSE buildPathFromRouteStyle(effectiveRouteStyle, sectionBase,
                                         normalizedSlug, locale, defaultLocale)
        Build(locale, sectionBase, effectiveRouteStyle) ==
            normalizeUrl(buildBaseUrlWithSubdomain(options.baseUrl, locale,
                                                   options.localeStrategy, defaultLocale),
                         ResolvedPath(locale, sectionBase, effectiveRouteStyle,
                                      normalizeItemSlug(item.slug, sectionBase)),
                         options.trailingSlash, TRUE, TRUE)
    IN  IF IsSome(item.canonicalOverride) /\ Len(Get(item.canonicalOverride)) > 0
        THEN Get(item.canonicalOverride)
        ELSE Build(OrElse(selectCanonicalLocale(defaultLocale,
                                                OrElse(item.locales, <<defaultLocale>>)),
                          defaultLocale),
                   normalizeSectionPath(
                       OrElse(options.sectionPath, OrElse(options.routePrefix, <<>>))),
                   OrElse(options.routeStyle,
                          inferRouteStyleFromLocaleStrategy(options.localeStrategy)))

(***************************************************************************)
(* core/canonical/config-manifests.ts                                      *)
(*                                                                         *)
(* config.manifests is an object; the model keeps it as the sequence of    *)
(* its [key, value] pairs in insertion order, which is what Object.entries *)
(* returns.  A value is an item array (isArray) or a section object.       *)
(***************************************************************************)
\* `x && {...}` on an optional string: present and not empty
Truthy(o) == IsSome(o) /\ Len(Get(o)) > 0

\* a.localeCompare(b, 'en', { sensitivity: 'base', numeric: true })
compareBase(a, b) == LexCompare(PrimaryKey(a), PrimaryKey(b))

normalizeManifestItems(items) ==
    Tuple([i \in 1..Len(items) |->
             [items[i] EXCEPT !.slug = IF StartsWith(@, <<"/">>) THEN @ ELSE <<"/">> \o @]])

resolveOneManifestSection(key, value) ==
    IF value.isArray
    THEN [key |-> key, sectionName |-> key, items |-> normalizeManifestItems(value.items),
          sectionPath |-> None, routeStyle |-> None,
          defaultLocaleOverride |-> None, pathnameFor |-> None]
    ELSE [key |-> key,
          sectionName |-> OrElse(value.sectionName, key),
          items |-> normalizeManifestItems(value.items),
          sectionPath |-> IF Truthy(value.sectionPath) THEN value.sectionPath ELSE None,
          routeStyle |-> value.routeStyle,
          defaultLocaleOverride |->
              IF Truthy(value.defaultLocaleOverride) THEN value.defaultLocaleOverride
              ELSE None,
          pathnameFor |-> value.pathnameFor]

resolveManifestSections(config) ==
    LET Resolve(manifestEntries) ==
            Tuple([i \in 1..Len(manifestEntries) |->
                     resolveOneManifestSection(manifestEntries[i].key,
                                               manifestEntries[i].value)])
    IN  Resolve(StableSort(config.manifests,
                   Tuple([i \in 1..Len(config.manifests) |->
                            Tuple([j \in 1..Len(config.manifests) |->
                                     compareBase(config.manifests[i].key,
                                                 config.manifests[j].key)])])))

\* the sort key of an item inside its section: `${item.slug}|${localesKey}`
ItemSortKey(item) == item.slug \o <<"|">> \o Join(OrElse(item.locales, <<>>), <<",">>)

\* the sort key of an entry: `${canonicalUrl}|${sectionKey}|${item.slug}`
EntrySortKey(entry) ==
    entry.canonicalUrl \o <<"|">> \o entry.sectionKey \o <<"|">> \o entry.item.slug

\* the entries one section contributes (the body of the loop over sections)
SectionEntries(config, section) ==
    LET defaultLocale ==
            OrElse(config.site.defaultLocale,
                   IF Len(config.brand.locales) > 0 THEN config.brand.locales[1]
                   ELSE <<"e", "n">>)
        Entries(sortedItems, itemOptions) ==
            Tuple([i \in 1..Len(sortedItems) |->
                     [sectionKey |-> section.key,
                      sectionName |-> section.sectionName,
                      item |-> sortedItems[i],
                      canonicalUrl |-> createCanonicalUrlForItem(sortedItems[i], itemOptions)]])
    IN  Entries(sortBy(section.items,
                       Tuple([i \in 1..Len(section.items) |-> ItemSortKey(section.items[i])])),
                [baseUrl |-> config.site.baseUrl,
                 sectionName |-> Some(section.sectionName),
                 defaultLocale |-> OrElse(section.defaultLocaleOverride, defaultLocale),
                 trailingSlash |-> OrElse(config.format.trailingSlash, "never"),
                 localeStrategy |-> OrElse(config.format.localeStrategy, "prefix"),
                 routePrefix |-> section.sectionPath,
                 sectionPath |-> section.sectionPath,
                 routeStyle |-> section.routeStyle,
                 pathnameFor |-> section.pathnameFor])

RECURSIVE Flatten(_)
Flatten(seqs) == IF seqs = <<>> THEN <<>> ELSE Head(seqs) \o Flatten(Tail(seqs))

\* threw: normalizeUrl raised its TypeError while an entry was being built
createCanonicalBundleFromConfig(config) ==
    LET Bundle(sortedEntries) ==
            [threw |-> FALSE,
             canonicalUrls |->
                 sortUrlsByPath(dedupeUrls(Tuple([i \in 1..Len(sortedEntries) |->
                                                    sortedEntries[i].canonicalUrl]))),
             manifestItems |->
                 Tuple([i \in 1..Len(sortedEntries) |-> sortedEntries[i].item]),
             entries |-> sortedEntries]
        Sorted(entries) ==
            IF \E i \in 1..Len(entries) : entries[i].canonicalUrl = InvalidBaseUrl
            THEN [threw |-> TRUE, canonicalUrls |-> <<>>, manifestItems |-> <<>>,
                  entries |-> <<>>]
            ELSE Bundle(sortBy(entries,
                               Tuple([i \in 1..Len(entries) |-> EntrySortKey(entries[i])])))
        Collect(sections) ==
            Sorted(Flatten(Tuple([i \in 1..Len(sections) |->
                                    SectionEntries(config, sections[i])])))
    IN  Collect(resolveManifestSections(config))

(***************************************************************************)
(* Configurations.  BaseConfig is a config that passes the schema; the     *)
(* manifests are drawn from pools of items that exercise equal slugs,      *)
(* numerically equal slugs, nested paths, locale lists, a slug without its *)
(* leading slash, a slug that repeats the section path and an override.    *)
(***************************************************************************)
\* a ManifestItem; the optional fields not given here are absent
Item(slug, title, locales, canonicalOverride) ==
    [slug |-> slug, title |-> title, locales |-> locales,
     canonicalOverride |-> canonicalOverride,
     priority |-> None, publishedAt |-> None, updatedAt |-> None]

BaseUrl == <<"h","t","t","p","s",":","/","/","x",".","i","o">>

\* a config as loadConfig returns it (LlmsSeoConfigSchema); the optional
\* fields are absent
BaseConfig ==
    [site |-> [baseUrl |-> BaseUrl, defaultLocale |-> Some(<<"e","n">>)],
     brand |-> [name |-> <<"A","c","m","e">>, tagline |-> None, description |-> None,
                org |-> None, locales |-> <<<<"e","n">>, <<"u","k">>>>],
     sections |-> [hubs |-> <<>>],
     policy |-> [geoPolicy |-> None, citationRules |-> None, restrictedClaims |-> None],
     contact |-> [email |-> None, phone |-> None, social |-> None],
     booking |-> [url |-> None, label |-> None],
     machineHints |-> [robots |-> None, sitemap |-> None, llmsTxt |-> None,
                       llmsFullTxt |-> None],
     output |-> [paths |-> [llmsTxt |-> "public/llms.txt",
                            llmsFullTxt |-> "public/llms-full.txt",
                            citations |-> None]],
     format |-> [trailingSlash |-> None, localeStrategy |-> None, lineEndings |-> None],
     manifests |-> <<>>]

PagesPool ==
    { Item(<<"/","a">>, Some(<<"A">>), None, None),
      Item(<<"/","a">>, Some(<<"B">>), None, None),
      Item(<<"/","a","/","b">>, None, Some(<<<<"u","k">>, <<"e","n">>>>), None),
      Item(<<"c">>, None, Some(<<<<"u","k">>>>), None),
      Item(<<"/","p","1">>, None, None, None),
      Item(<<"/","p","0","1">>, None, None, None) }

BlogPool ==
    { Item(<<"/","b","l","o","g","/","x">>, None, None, None),
      Item(<<"/","z">>, None, None, Some(<<"h","t","t","p","s",":","/","/","x",".","i","o","/","a">>)) }

\* the most items a section's list holds
MaxItems == 2

\* the sequences of distinct members of pool, of length at most MaxItems
ItemLists(pool) ==
    { s \in UNION {[1..n -> pool] : n \in 0..MaxItems} :
        \A i, j \in 1..Len(s) : i # j => s[i] # s[j] }

PagesSection(items) ==
    [key |-> <<"p","a","g","e","s">>,
     value |-> [isArray |-> TRUE, items |-> items, sectionName |-> None,
                sectionPath |-> None, routeStyle |-> None,
                defaultLocaleOverride |-> None, pathnameFor |-> None]]

BlogSection(items) ==
    [key |-> <<"b","l","o","g">>,
     value |-> [isArray |-> FALSE, items |-> items, sectionName |-> Some(<<"B","l","o","g">>),
                sectionPath |-> Some(<<"/","b","l","o","g">>), routeStyle |-> None,
                defaultLocaleOverride |-> None, pathnameFor |-> None]]

\* s with its elements at positions i and i + 1 exchanged
SwapAt(s, i) == [s EXCEPT ![i] = s[i + 1], ![i + 1] = s[i]]

(***************************************************************************)
(* SpecBundle: the bundle assembler called on configs that differ only in  *)
(* the order of a section's items or of the section keys.                  *)
(***************************************************************************)
InitBundle ==
    /\ \E pages \in ItemLists(PagesPool), blog \in ItemLists(BlogPool), pagesFirst \in BOOLEAN :
          cfg = [BaseConfig EXCEPT !.manifests =
                    IF pagesFirst THEN <<PagesSection(pages), BlogSection(blog)>>
                    ELSE <<BlogSection(blog), PagesSection(pages)>>]
    /\ bundle = None
    /\ baseline = None
    /\ configFile = "ok" /\ outputFiles = <<>> /\ run = None
    /\ clock = 0 /\ memo = <<>> /\ last = None
    /\ call = None /\ ret = None

\* createCanonicalBundleFromConfig(cfg)
Assemble ==
    /\ bundle = None
    /\ bundle' = Some(createCanonicalBundleFromConfig(cfg))
    /\ baseline' = IF baseline = None THEN bundle' ELSE baseline
    /\ UNCHANGED <<cfg, cliVars, genVars, fnVars>>

\* the caller lists the same items of a section in another order
ReorderItems ==
    /\ \E k \in 1..Len(cfg.manifests) :
          \E i \in 1..(Len(cfg.manifests[k].value.items) - 1) :
             cfg' = [cfg EXCEPT !.manifests[k].value.items = SwapAt(@, i)]
    /\ bundle' = None
    /\ UNCHANGED <<baseline, cliVars, genVars, fnVars>>

\* the caller writes the same section keys in another order
ReorderSections ==
    /\ \E k \in 1..(Len(cfg.manifests) - 1) :
          cfg' = [cfg EXCEPT !.manifests = SwapAt(@, k)]
    /\ bundle' = None
    /\ UNCHANGED <<baseline, cliVars, genVars, fnVars>>

NextBundle == Assemble \/ ReorderItems \/ ReorderSections

SpecBundle == InitBundle /\ [][NextBundle]_vars


(***************************************************************************)
(* Properties of the canonical bundle (SpecBundle).                        *)
(***************************************************************************)
Assembled == IsSome(bundle) /\ ~Get(bundle).threw

EntryUrls(b) == {b.entries[i].canonicalUrl : i \in 1..Len(b.entries)}

PositionOf(u, urls) == CHOOSE k \in 1..Len(urls) : urls[k] = u

\* C8: the bundle depends only on the logical input: after the items of a
\* section or the section keys have been reordered, the assembler returns the
\* same canonicalUrls, entries and manifestItems as it did the first time.
C8_OrderIndependent == (Assembled /\ IsSome(baseline)) => bundle = baseline

\* C9: canonicalUrls never holds two equal strings, and it holds exactly the
\* canonical URLs of the bundle's entries.
C9_DedupedUrlSet ==
    Assembled =>
        LET b == Get(bundle)
        IN  /\ \A i, j \in 1..Len(b.canonicalUrls) :
                  i # j => b.canonicalUrls[i] # b.canonicalUrls[j]
            /\ {b.canonicalUrls[i] : i \in 1..Len(b.canonicalUrls)} = EntryUrls(b)

\* a bundle in which two entries resolve to the same URL, listed once
C9_Witness ==
    /\ Assembled
    /\ \E i, j \in 1..Len(Get(bundle).entries) :
          i # j /\ Get(bundle).entries[i].canonicalUrl = Get(bundle).entries[j].canonicalUrl
    /\ Len(Get(bundle).canonicalUrls) < Len(Get(bundle).entries)

\* C10 as stated: manifestItems[i] is the item of entries[i], and if entry a
\* precedes entry b then a's URL does not come after b's URL in canonicalUrls.
C10_SameRelativeOrder ==
    Assembled =>
        LET b == Get(bundle)
        IN  /\ Len(b.manifestItems) = Len(b.entries)
            /\ \A i \in 1..Len(b.entries) : b.manifestItems[i] = b.entries[i].item
            /\ \A i, j \in 1..Len(b.entries) :
                  i < j => PositionOf(b.entries[i].canonicalUrl, b.canonicalUrls)
                             <= PositionOf(b.entries[j].canonicalUrl, b.canonicalUrls)

\* C10 (amended): manifestItems[i] is the item of entries[i]; entries are in
\* non-decreasing collation order of their key `url|sectionKey|slug`;
\* canonicalUrls are ordered by number of path segments first and collation
\* second, which is a different order from that of the entries.
C10_EachListSorted ==
    Assembled =>
        LET b == Get(bundle)
        IN  /\ Len(b.manifestItems) = Len(b.entries)
            /\ \A i \in 1..Len(b.entries) : b.manifestItems[i] = b.entries[i].item
            /\ \A i, j \in 1..Len(b.entries) :
                  i < j => compareStrings(EntrySortKey(b.entries[i]),
                                          EntrySortKey(b.entries[j])) <= 0
            /\ \A i, j \in 1..Len(b.canonicalUrls) :
                  i < j =>
                    LET si == countPathSegments(b.canonicalUrls[i])
                        sj == countPathSegments(b.canonicalUrls[j])
                    IN  \/ si < sj
                        \/ /\ si = sj
                           /\ compareStrings(b.canonicalUrls[i], b.canonicalUrls[j]) <= 0

\* a bundle whose entries put a deeper URL before a shallower one
C10_Witness ==
    /\ Assembled
    /\ \E i, j \in 1..Len(Get(bundle).entries) :
          /\ i < j
          /\ countPathSegments(Get(bundle).entries[i].canonicalUrl)
                > countPathSegments(Get(bundle).entries[j].canonicalUrl)

(***************************************************************************)
(* Text normalizers (core/normalize/text).  A text is the sequence of its  *)
(* characters; "\n" and "\r" are the line feed and the carriage return.    *)
(***************************************************************************)
\* the characters String.prototype.trim and the regular expression \s remove
IsSpace(c) == c \in {" ", "\t", "\n", "\r"}

RECURSIVE TrimEnd(_)
\* s.trimEnd()
TrimEnd(s) ==
    IF Len(s) > 0 /\ IsSpace(s[Len(s)]) THEN TrimEnd(SubSeq(s, 1, Len(s) - 1)) ELSE s

RECURSIVE TrimStart(_)
\* s.trimStart()
TrimStart(s) == IF Len(s) > 0 /\ IsSpace(s[1]) THEN TrimStart(Tail(s)) ELSE s

\* s.trim()
Trim(s) == TrimStart(TrimEnd(s))

\* text.split('\n')
SplitLines(text) == Split(text, "\n")

\* text.split(/\r?\n/): a carriage return right before a line feed belongs
\* to the separator
SplitAnyEol(text) ==
    LET Cut(pieces) ==
            Tuple([i \in 1..Len(pieces) |->
                      IF i < Len(pieces) /\ EndsWith(pieces[i], <<"\r">>)
                      THEN SubSeq(pieces[i], 1, Len(pieces[i]) - 1)
                      ELSE pieces[i]])
    IN  Cut(Split(text, "\n"))

\* line.replace(/[ \t]+/g, (match) => ' '.repeat(match.length))
TabsToSpaces(line) == Tuple([i \in 1..Len(line) |-> IF line[i] = "\t" THEN " " ELSE line[i]])

RECURSIVE CollapseSpaces(_)
\* line.replace(/  +/g, ' ')
CollapseSpaces(line) ==
    IF Len(line) < 2 THEN line
    ELSE IF line[1] = " " /\ line[2] = " " THEN CollapseSpaces(Tail(line))
    ELSE <<line[1]>> \o CollapseSpaces(Tail(line))

normalizeLineWhitespace(text) ==
    LET Mapped(lines) ==
            Tuple([i \in 1..Len(lines) |-> CollapseSpaces(TabsToSpaces(TrimEnd(lines[i])))])
    IN  Join(Mapped(SplitAnyEol(text)), <<"\n">>)

\* text.replace(/\r\n/g, '\n').replace(/\r/g, '\n'): of the pieces between
\* the line feeds, all but the last lose one carriage return at their end,
\* and every other carriage return becomes a line feed
ReplaceCrLf(text) ==
    LET Cr(piece) == Tuple([k \in 1..Len(piece) |-> IF piece[k] = "\r" THEN "\n" ELSE piece[k]])
        Mapped(pieces) == Tuple([i \in 1..Len(pieces) |-> Cr(pieces[i])])
    IN  Join(Mapped(SplitAnyEol(text)), <<"\n">>)

\* lineEndings is "lf" or "crlf"
normalizeLineEndings(text, lineEndings) ==
    LET Target(normalized) ==
            IF lineEndings = "crlf"
            THEN Join(Split(normalized, "\n"), <<"\r", "\n">>)
            ELSE normalized
    IN  Target(ReplaceCrLf(text))

(***************************************************************************)
(* core/generate/llms-txt: the brief document.  Characters are ASCII, so   *)
(* Buffer.byteLength(content, 'utf-8') is the number of characters.        *)
(***************************************************************************)
\* the fixed labels of getHubLabel
HubLabels ==
    << <<<<"/","s","e","r","v","i","c","e","s">>, <<"S","e","r","v","i","c","e","s"," ","o","v","e","r","v","i","e","w">>>>, <<<<"/","b","l","o","g">>, <<"B","l","o","g"," ","p","o","s","t","s">>>>,
       <<<<"/","p","r","o","j","e","c","t","s">>, <<"O","u","r"," ","p","r","o","j","e","c","t","s">>>>, <<<<"/","c","a","s","e","s">>, <<"C","a","s","e"," ","s","t","u","d","i","e","s">>>>,
       <<<<"/","c","o","n","t","a","c","t">>, <<"C","o","n","t","a","c","t"," ","u","s">>>>, <<<<"/","a","b","o","u","t">>, <<"A","b","o","u","t"," ","u","s">>>>,
       <<<<"/","p","r","o","d","u","c","t","s">>, <<"P","r","o","d","u","c","t","s">>>>, <<<<"/","d","o","c","s">>, <<"D","o","c","u","m","e","n","t","a","t","i","o","n">>>>,
       <<<<"/","f","a","q">>, <<"F","r","e","q","u","e","n","t","l","y"," ","a","s","k","e","d"," ","q","u","e","s","t","i","o","n","s">>>>, <<<<"/","p","r","i","c","i","n","g">>, <<"P","r","i","c","i","n","g"," ","i","n","f","o","r","m","a","t","i","o","n">>>>,
       <<<<"/","t","e","a","m">>, <<"O","u","r"," ","t","e","a","m">>>>, <<<<"/","c","a","r","e","e","r","s">>, <<"C","a","r","e","e","r"," ","o","p","p","o","r","t","u","n","i","t","i","e","s">>>>,
       <<<<"/","n","e","w","s">>, <<"N","e","w","s"," ","a","n","d"," ","u","p","d","a","t","e","s">>>>, <<<<"/","r","e","s","o","u","r","c","e","s">>, <<"R","e","s","o","u","r","c","e","s">>>>,
       <<<<"/","s","u","p","p","o","r","t">>, <<"S","u","p","p","o","r","t"," ","c","e","n","t","e","r">>>> >>

\* \w of a regular expression
IsWordChar(c) == IsLetter(c) \/ IsDigit(c) \/ c = "_"

\* c.toUpperCase() for one character
UpperChar(c) == IF IsIn(c, Lowers) THEN Uppers[IndexIn(c, Lowers)] ELSE c

formatHubLabel(hub) ==
    LET Spaced(clean) ==
            Tuple([i \in 1..Len(clean) |->
                      IF clean[i] = "-" \/ clean[i] = "_" THEN " " ELSE clean[i]])
        Capitalized(s) ==
            Tuple([i \in 1..Len(s) |->
                      IF IsWordChar(s[i]) /\ (i = 1 \/ ~IsWordChar(s[i - 1]))
                      THEN UpperChar(s[i]) ELSE s[i]])
    IN  Capitalized(Spaced(IF StartsWith(hub, <<"/">>) THEN Tail(hub) ELSE hub))

getHubLabel(hub) ==
    IF \E i \in 1..Len(HubLabels) : HubLabels[i][1] = hub
    THEN HubLabels[CHOOSE i \in 1..Len(HubLabels) : HubLabels[i][1] = hub][2]
    ELSE formatHubLabel(hub)

\* `- [${hub}](${hub}) - ${hubLabel}` for the hubs in sortStrings order
HubLines(hubs) ==
    LET Lines(sortedHubs) ==
            Tuple([i \in 1..Len(sortedHubs) |->
                      <<"-"," ","[">> \o sortedHubs[i] \o <<"]","(">> \o sortedHubs[i] \o <<")"," ","-"," ">>
                          \o getHubLabel(sortedHubs[i])])
    IN  Lines(sortStrings(hubs))

\* `- ${url}` for the urls in sortStrings order
UrlLines(canonicalUrls) ==
    LET Lines(sortedUrls) ==
            Tuple([i \in 1..Len(sortedUrls) |-> <<"-"," ">> \o sortedUrls[i]])
    IN  Lines(sortStrings(canonicalUrls))

\* one line `${label}${value}` when the optional string is truthy
OptionalLine(label, o) == IF Truthy(o) THEN <<label \o Get(o)>> ELSE <<>>

\* the Machine Hints section, the same in both documents
MachineHintLines(config) ==
    LET h == config.machineHints
    IN  IF Truthy(h.robots) \/ Truthy(h.sitemap) \/ Truthy(h.llmsTxt) \/ Truthy(h.llmsFullTxt)
        THEN <<<<"#","#"," ","M","a","c","h","i","n","e"," ","H","i","n","t","s">>, <<>>>>
                \o OptionalLine(<<"-"," ","r","o","b","o","t","s",".","t","x","t",":"," ">>, h.robots)
                \o OptionalLine(<<"-"," ","s","i","t","e","m","a","p",".","x","m","l",":"," ">>, h.sitemap)
                \o OptionalLine(<<"-"," ","l","l","m","s",".","t","x","t",":"," ">>, h.llmsTxt)
                \o OptionalLine(<<"-"," ","l","l","m","s","-","f","u","l","l",".","t","x","t",":"," ">>, h.llmsFullTxt)
                \o << <<>> >>
        ELSE <<>>

\* the lines about contact.social, contact and booking that both documents share
SocialLines(social) ==
    OptionalLine(<<"-"," ","T","w","i","t","t","e","r",":"," ">>, social.twitter)
        \o OptionalLine(<<"-"," ","L","i","n","k","e","d","I","n",":"," ">>, social.linkedin)
        \o OptionalLine(<<"-"," ","G","i","t","H","u","b",":"," ">>, social.github)

BookingLines(booking) ==
    IF Truthy(booking.url)
    THEN <<<<"-"," ","B","o","o","k","i","n","g",":"," ">> \o Get(booking.url) \o <<" ","(">>
              \o OrElse(booking.label, <<"B","o","o","k"," ","c","o","n","s","u","l","t","a","t","i","o","n">>) \o <<")">>>>
    ELSE <<>>

\* lines.join('\n'), normalizeLineWhitespace, normalizeLineEndings and the
\* metadata of the result
FinishDocument(lines, lineEndings) ==
    LET Result(content) ==
            [content |-> content,
             byteSize |-> Len(content),
             lineCount |->
                 IF lineEndings = "crlf"
                 THEN Cardinality({i \in 1..(Len(content) - 1) :
                                      content[i] = "\r" /\ content[i + 1] = "\n"}) + 1
                 ELSE Cardinality(SepPositions(content, "\n")) + 1]
    IN  Result(normalizeLineEndings(normalizeLineWhitespace(Join(lines, <<"\n">>)),
                                    lineEndings))

createLlmsTxt(config, canonicalUrls) ==
    LET policy == config.policy
        contact == config.contact
        header == <<<<"#"," ">> \o config.brand.name, <<>>>>
        tagline ==
            IF Truthy(config.brand.tagline)
            THEN <<<<">"," ">> \o Get(config.brand.tagline), <<>>>> ELSE <<>>
        description ==
            IF Truthy(config.brand.description)
            THEN <<Get(config.brand.description), <<>>>> ELSE <<>>
        sections ==
            IF Len(config.sections.hubs) > 0
            THEN <<<<"#","#"," ","S","e","c","t","i","o","n","s">>, <<>>>> \o HubLines(config.sections.hubs) \o << <<>> >>
            ELSE <<>>
        urls ==
            IF Len(canonicalUrls) > 0
            THEN <<<<"#","#"," ","U","R","L","s">>, <<>>>> \o UrlLines(canonicalUrls) \o << <<>> >>
            ELSE <<>>
        policies ==
            IF Truthy(policy.geoPolicy) \/ Truthy(policy.citationRules)
                  \/ IsSome(policy.restrictedClaims)
            THEN <<<<"#","#"," ","P","o","l","i","c","i","e","s">>, <<>>>>
                    \o OptionalLine(<<"-"," ","G","E","O",":"," ">>, policy.geoPolicy)
                    \o OptionalLine(<<"-"," ","C","i","t","a","t","i","o","n","s",":"," ">>, policy.citationRules)
                    \o (IF IsSome(policy.restrictedClaims)
                        THEN <<<<"-"," ","R","e","s","t","r","i","c","t","e","d"," ","C","l","a","i","m","s",":"," ">>
                                  \o (IF Get(policy.restrictedClaims).enable
                                      THEN <<"E","n","a","b","l","e","d">> ELSE <<"D","i","s","a","b","l","e","d">>)>>
                        ELSE <<>>)
                    \o << <<>> >>
            ELSE <<>>
        contacts ==
            IF Truthy(contact.email) \/ IsSome(contact.social) \/ Truthy(contact.phone)
                  \/ Truthy(config.booking.url)
            THEN <<<<"#","#"," ","C","o","n","t","a","c","t">>, <<>>>>
                    \o OptionalLine(<<"-"," ","E","m","a","i","l",":"," ">>, contact.email)
                    \o OptionalLine(<<"-"," ","P","h","o","n","e",":"," ">>, contact.phone)
                    \o (IF IsSome(contact.social) THEN SocialLines(Get(contact.social))
                        ELSE <<>>)
                    \o BookingLines(config.booking)
                    \o << <<>> >>
            ELSE <<>>
    IN  FinishDocument(header \o tagline \o description \o sections \o urls \o policies
                           \o contacts \o MachineHintLines(config),
                       OrElse(config.format.lineEndings, "lf"))

\* a date-only ISO 8601 string, the form of publishedAt and updatedAt
IsIsoDate(v) ==
    /\ Len(v) = 10
    /\ v[5] = "-" /\ v[8] = "-"
    /\ \A i \in {1, 2, 3, 4, 6, 7, 9, 10} : IsDigit(v[i])

\* new Date(value).getTime() as a key that orders valid dates; a value that
\* is not a date gives NaN, which is None here
DateKey(v) ==
    IF IsIsoDate(v)
    THEN Some(Tuple([i \in 1..8 |-> IndexIn(v[<<1, 2, 3, 4, 6, 7, 9, 10>>[i]], Digits)]))
    ELSE None

RECURSIVE ItemTimestamps(_)
\* updatedAt, else publishedAt, of every item that has one
ItemTimestamps(items) ==
    IF items = <<>> THEN <<>>
    ELSE (IF Truthy(Head(items).updatedAt) THEN <<Get(Head(items).updatedAt)>>
          ELSE IF Truthy(Head(items).publishedAt) THEN <<Get(Head(items).publishedAt)>>
          ELSE <<>>) \o ItemTimestamps(Tail(items))

\* the latest valid timestamp as YYYY-MM-DD, or None
getLastUpdatedDate(items) ==
    LET Latest(timestamps) ==
            LET valid == {i \in 1..Len(timestamps) : IsSome(DateKey(timestamps[i]))}
            IN  IF valid = {} THEN None
                ELSE Some(timestamps[CHOOSE i \in valid : \A j \in valid :
                             LexCompare(Get(DateKey(timestamps[j])),
                                        Get(DateKey(timestamps[i]))) <= 0])
    IN  Latest(ItemTimestamps(items))

\* item.locales?.join(', ') ?? config.brand.locales[0] ?? 'en'
LocalesText(item, config) ==
    IF IsSome(item.locales) THEN Join(Get(item.locales), <<","," ">>)
    ELSE IF Len(config.brand.locales) > 0 THEN config.brand.locales[1]
    ELSE <<"e","n">>

\* `- [${title}](${url}) (${locales})`
SitemapLine(item, url, config) ==
    <<"-"," ","[">> \o OrElse(item.title, item.slug) \o <<"]","(">> \o url \o <<")"," ","(">>
        \o LocalesText(item, config) \o <<")">>

\* the entries in sortBy order of `${entry.item.slug}|${entry.canonicalUrl}`
EntryLines(manifestEntries, config) ==
    LET Lines(sortedEntries) ==
            Tuple([i \in 1..Len(sortedEntries) |->
                      SitemapLine(sortedEntries[i].item, sortedEntries[i].canonicalUrl, config)])
    IN  Lines(sortBy(manifestEntries,
                     Tuple([i \in 1..Len(manifestEntries) |->
                               manifestEntries[i].item.slug \o <<"|">>
                                   \o manifestEntries[i].canonicalUrl])))

\* the items in sortBy order of their slug, with the URL
\* item.canonicalOverride ?? `${config.site.baseUrl}${item.slug}`
ItemLines(manifestItems, config) ==
    LET Lines(sortedItems) ==
            Tuple([i \in 1..Len(sortedItems) |->
                      SitemapLine(sortedItems[i],
                                  OrElse(sortedItems[i].canonicalOverride,
                                         config.site.baseUrl \o sortedItems[i].slug),
                                  config)])
    IN  Lines(sortBy(manifestItems,
                     Tuple([i \in 1..Len(manifestItems) |-> manifestItems[i].slug])))

\* manifestEntries is None when the caller does not pass it
createLlmsFullTxt(config, canonicalUrls, manifestItems, manifestEntries) ==
    LET policy == config.policy
        contact == config.contact
        header == <<<<"#"," ">> \o config.brand.name \o <<" ","-"," ","F","u","l","l"," ","L","L","M"," ","C","o","n","t","e","x","t">>, <<>>>>
        tagline ==
            IF Truthy(config.brand.tagline)
            THEN <<<<">"," ">> \o Get(config.brand.tagline), <<>>>> ELSE <<>>
        description ==
            IF Truthy(config.brand.description)
            THEN <<Get(config.brand.description), <<>>>> ELSE <<>>
        facts ==
            OptionalLine(<<"O","r","g","a","n","i","z","a","t","i","o","n",":"," ">>, config.brand.org)
                \o <<<<"L","o","c","a","l","e","s",":"," ">> \o Join(config.brand.locales, <<","," ">>)>>
                \o OptionalLine(<<"L","a","s","t"," ","U","p","d","a","t","e","d",":"," ">>, getLastUpdatedDate(manifestItems))
                \o << <<>> >>
        urls ==
            IF Len(canonicalUrls) > 0
            THEN <<<<"#","#"," ","A","l","l"," ","C","a","n","o","n","i","c","a","l"," ","U","R","L","s">>, <<>>>> \o UrlLines(canonicalUrls) \o << <<>> >>
            ELSE <<>>
        claims ==
            IF IsSome(policy.restrictedClaims)
            THEN <<<<"#","#","#"," ","R","e","s","t","r","i","c","t","e","d"," ","C","l","a","i","m","s">>,
                   <<"S","t","a","t","u","s",":"," ">> \o (IF Get(policy.restrictedClaims).enable
                                  THEN <<"E","n","a","b","l","e","d">> ELSE <<"D","i","s","a","b","l","e","d">>)>>
                    \o (IF Len(Get(policy.restrictedClaims).forbidden) > 0
                        THEN <<<<"F","o","r","b","i","d","d","e","n"," ","t","e","r","m","s",":"," ">>
                                  \o Join(Get(policy.restrictedClaims).forbidden, <<","," ">>)>>
                        ELSE <<>>)
                    \o (IF Len(Get(policy.restrictedClaims).whitelist) > 0
                        THEN <<<<"E","x","c","e","p","t","i","o","n","s",":"," ">>
                                  \o Join(Get(policy.restrictedClaims).whitelist, <<","," ">>)>>
                        ELSE <<>>)
                    \o << <<>> >>
            ELSE <<>>
        policies ==
            IF Truthy(policy.geoPolicy) \/ Truthy(policy.citationRules)
                  \/ IsSome(policy.restrictedClaims)
            THEN <<<<"#","#"," ","P","o","l","i","c","i","e","s">>, <<>>>>
                    \o (IF Truthy(policy.geoPolicy)
                        THEN <<<<"#","#","#"," ","G","E","O"," ","P","o","l","i","c","y">>, Get(policy.geoPolicy), <<>>>> ELSE <<>>)
                    \o (IF Truthy(policy.citationRules)
                        THEN <<<<"#","#","#"," ","C","i","t","a","t","i","o","n"," ","R","u","l","e","s">>, Get(policy.citationRules), <<>>>>
                        ELSE <<>>)
                    \o claims
            ELSE <<>>
        social == IF IsSome(contact.social) THEN Get(contact.social)
                  ELSE [twitter |-> None, linkedin |-> None, github |-> None]
        contacts ==
            IF Truthy(contact.email) \/ Truthy(contact.phone) \/ Truthy(social.twitter)
                  \/ Truthy(social.linkedin) \/ Truthy(social.github)
                  \/ Truthy(config.booking.url)
            THEN <<<<"#","#"," ","C","o","n","t","a","c","t">>, <<>>>>
                    \o OptionalLine(<<"-"," ","E","m","a","i","l",":"," ">>, contact.email)
                    \o OptionalLine(<<"-"," ","P","h","o","n","e",":"," ">>, contact.phone)
                    \o SocialLines(social)
                    \o BookingLines(config.booking)
                    \o << <<>> >>
            ELSE <<>>
        sitemap ==
            IF Len(config.sections.hubs) > 0 \/ Len(manifestItems) > 0
            THEN <<<<"#","#"," ","S","i","t","e","m","a","p">>, <<>>>>
                    \o HubLines(config.sections.hubs)
                    \o (IF IsSome(manifestEntries) /\ Len(Get(manifestEntries)) > 0
                        THEN EntryLines(Get(manifestEntries), config)
                        ELSE IF Len(manifestItems) > 0
                        THEN ItemLines(manifestItems, config)
                        ELSE <<>>)
                    \o << <<>> >>
            ELSE <<>>
    IN  FinishDocument(header \o tagline \o description \o facts \o urls \o policies
                           \o contacts \o MachineHintLines(config) \o sitemap,
                       OrElse(config.format.lineEndings, "lf"))

(***************************************************************************)
(* core/generate/citations: the citation index.  now is the reading of the *)
(* system clock that `new Date()` takes when no timestamp is injected.     *)
(***************************************************************************)
\* the most the clock reads
MaxClock == 2

\* new Date().toISOString() when the clock reads now
ToISOString(now) == <<"2","0","2","4","-","0","1","-","0","1","T","0","0",":","0","0",":","0">> \o <<Digits[now + 1]>> \o <<".","0","0","0","Z">>

CitationSource(item, config, sectionName) ==
    [url |-> OrElse(item.canonicalOverride, config.site.baseUrl \o item.slug),
     priority |-> OrElse(item.priority, 50),
     section |-> sectionName,
     locale |-> IF IsSome(item.locales) /\ Len(Get(item.locales)) > 0
                THEN Get(item.locales)[1]
                ELSE IF IsSome(config.site.defaultLocale) THEN Get(config.site.defaultLocale)
                ELSE IF Len(config.brand.locales) > 0 THEN config.brand.locales[1]
                ELSE <<"e","n">>,
     publishedAt |-> IF Truthy(item.publishedAt) THEN item.publishedAt ELSE None,
     updatedAt |-> IF Truthy(item.updatedAt) THEN item.updatedAt ELSE None,
     title |-> IF Truthy(item.title) THEN item.title ELSE None]

\* sources.sort: priority descending, then url by localeCompare
SortSources(sources) ==
    LET Compare(ck) ==
            Tuple([i \in 1..Len(sources) |-> Tuple([j \in 1..Len(sources) |->
                IF sources[i].priority # sources[j].priority
                THEN sources[j].priority - sources[i].priority
                ELSE compareCollationKeys(ck[i], ck[j])])])
    IN  StableSort(sources,
                   Compare(Tuple([i \in 1..Len(sources) |-> CollationKey(sources[i].url)])))

\* the injected timestamp is ignored and the clock is read
createCitationsJson_Now(config, manifestItems, sectionName, fixedTimestamp, now) ==
    [version |-> <<"1",".","0">>,
     generated |-> ToISOString(now),
     site |-> [baseUrl |-> config.site.baseUrl, name |-> config.brand.name],
     sources |-> SortSources(Tuple([i \in 1..Len(manifestItems) |->
                     CitationSource(manifestItems[i], config, sectionName)])),
     policy |-> [restrictedClaimsEnabled |-> FALSE, geoPolicy |-> None,
                 citationRules |-> None]]

\* fixedTimestamp is None when the caller injects no timestamp
createCitationsJson(config, manifestItems, sectionName, fixedTimestamp, now) ==
    [version |-> <<"1",".","0">>,
     generated |-> OrElse(fixedTimestamp, ToISOString(now)),
     site |-> [baseUrl |-> config.site.baseUrl, name |-> config.brand.name],
     sources |-> SortSources(Tuple([i \in 1..Len(manifestItems) |->
                     CitationSource(manifestItems[i], config, sectionName)])),
     policy |-> [restrictedClaimsEnabled |->
                     IsSome(config.policy.restrictedClaims)
                        /\ Get(config.policy.restrictedClaims).enable,
                 geoPolicy |-> IF Truthy(config.policy.geoPolicy)
                               THEN config.policy.geoPolicy ELSE None,
                 citationRules |-> IF Truthy(config.policy.citationRules)
                                   THEN config.policy.citationRules ELSE None]]

(***************************************************************************)
(* core/check/rules-linter.  An issue is [severity, code, path, line,      *)
(* context]; its message is a text for the reader and is left out, and so  *)
(* is the context of a lint issue, a copy of the line.  line and context   *)
(* are None for an issue that has none.                                    *)
(***************************************************************************)
Issue(severity, code, path, line) ==
    [severity |-> severity, code |-> code, path |-> path, line |-> line,
     context |-> None]

\* issues with their path set, as lintFile copies them
WithPath(issues, path) == Tuple([i \in 1..Len(issues) |-> [issues[i] EXCEPT !.path = path]])

\* the match of /\[([^\]]*)\]\(([^)]+)\)/ that starts at position p of line:
\* [url, next], next being the position after the match; None if there is none
LinkAt(line, p) ==
    LET Close(q) ==
            LET ends == {r \in (q + 2)..Len(line) : line[r] = ")"}
            IN  IF q + 1 <= Len(line) /\ line[q + 1] = "(" /\ ends # {}
                     /\ MinOf(ends) >= q + 3
                THEN Some([url |-> SubSeq(line, q + 2, MinOf(ends) - 1),
                           next |-> MinOf(ends) + 1])
                ELSE None
        Open(brackets) == IF brackets = {} THEN None ELSE Close(MinOf(brackets))
    IN  IF line[p] = "[" THEN Open({q \in (p + 1)..Len(line) : line[q] = "]"}) ELSE None

RECURSIVE LinksFrom(_, _)
\* the URLs of the successive matches of the global pattern in line, from p on
LinksFrom(line, p) ==
    LET Step(m) == IF IsSome(m) THEN <<Get(m).url>> \o LinksFrom(line, Get(m).next)
                   ELSE LinksFrom(line, p + 1)
    IN  IF p > Len(line) THEN <<>> ELSE Step(LinkAt(line, p))

\* the URLs of the markdown links of every line
LinksOfLines(lines) == Tuple([i \in 1..Len(lines) |-> LinksFrom(lines[i], 1)])

\* the number of leading '#' of line
RECURSIVE LeadingHashes(_)
LeadingHashes(line) ==
    IF Len(line) > 0 /\ line[1] = "#" THEN 1 + LeadingHashes(Tail(line)) ELSE 0

\* the level matched by /^(#{1,6})\s/, or 0
HeadingPrefixLevel(line) ==
    LET Level(h) == IF h >= 1 /\ h <= 6 /\ Len(line) > h /\ IsSpace(line[h + 1])
                    THEN h ELSE 0
    IN  Level(LeadingHashes(line))

RECURSIVE HeadingSkips(_, _, _)
\* lintHeadingStructure: the loop from line i on with the level seen last
HeadingSkips(lines, i, prevLevel) ==
    LET Step(level) ==
            IF level = 0 THEN HeadingSkips(lines, i + 1, prevLevel)
            ELSE (IF level > prevLevel + 1 /\ prevLevel > 0
                  THEN <<Issue("warning", "heading-skip", "", Some(i))>> ELSE <<>>)
                    \o HeadingSkips(lines, i + 1, level)
    IN  IF i > Len(lines) THEN <<>> ELSE Step(HeadingPrefixLevel(lines[i]))

lintHeadingStructure(lines) == HeadingSkips(lines, 1, 0)

RECURSIVE InvalidUrls(_, _)
\* lintUrlFormat: one issue per link whose URL starts with none of / http #
InvalidUrls(links, i) ==
    LET Bad(urls) ==
            {k \in 1..Len(urls) :
                ~StartsWith(urls[k], <<"/">>) /\ ~StartsWith(urls[k], <<"h","t","t","p">>)
                   /\ ~StartsWith(urls[k], <<"#">>)}
        Of(urls) == Tuple([k \in 1..Cardinality(Bad(urls)) |->
                              Issue("warning", "invalid-url", "", Some(i))])
    IN  IF i > Len(links) THEN <<>> ELSE Of(links[i]) \o InvalidUrls(links, i + 1)

lintUrlFormat(links) == InvalidUrls(links, 1)

RECURSIVE TrailingWhitespace(_, _)
TrailingWhitespace(lines, i) ==
    IF i > Len(lines) THEN <<>>
    ELSE (IF EndsWith(lines[i], <<" ">>)
          THEN <<Issue("info", "trailing-whitespace", "", Some(i))>> ELSE <<>>)
            \o TrailingWhitespace(lines, i + 1)

lintTrailingWhitespace(lines) == TrailingWhitespace(lines, 1)

\* /^\s*m\s/.test(line) for the list marker m
HasListMarker(line, m) ==
    LET After(rest) == Len(rest) >= 2 /\ rest[1] = m /\ IsSpace(rest[2])
    IN  After(TrimStart(line))

lintListMarkers(lines) ==
    IF (\E i \in 1..Len(lines) : HasListMarker(lines[i], "-"))
          /\ (\E i \in 1..Len(lines) : HasListMarker(lines[i], "*"))
    THEN <<Issue("info", "inconsistent-list-markers", "", None)>>
    ELSE <<>>

\* lintContent with LINT_RULES: the four rules in their order
lintContent(lines, links) ==
    lintHeadingStructure(lines) \o lintUrlFormat(links) \o lintTrailingWhitespace(lines)
        \o lintListMarkers(lines)

\* the whitelist is not looked at
ForbiddenOnLine_NoWhitelist(line, term, whitelist) ==
    Includes(ToLowerCase(line), ToLowerCase(term))

\* whether one line raises forbidden_term for term
ForbiddenOnLine(line, term, whitelist) ==
    LET Hit(lineLower, termLower) ==
            /\ Includes(lineLower, termLower)
            /\ ~\E w \in 1..Len(whitelist) :
                   /\ Includes(lineLower, ToLowerCase(whitelist[w]))
                   /\ Includes(ToLowerCase(whitelist[w]), termLower)
    IN  Hit(ToLowerCase(line), ToLowerCase(term))

RECURSIVE ForbiddenFrom(_, _, _, _)
\* checkForbiddenTerms: the loop from line i on
ForbiddenFrom(lines, i, forbidden, whitelist) ==
    LET Skip(loweredTrimmed) ==
            StartsWith(loweredTrimmed, <<"f","o","r","b","i","d","d","e","n"," ","t","e","r","m","s",":">>)
               \/ StartsWith(loweredTrimmed, <<"e","x","c","e","p","t","i","o","n","s",":">>)
        Hits(line) ==
            {t \in 1..Len(forbidden) : ForbiddenOnLine(line, forbidden[t], whitelist)}
        Of(n) == Tuple([k \in 1..n |-> Issue("warning", "forbidden_term", "", Some(i))])
    IN  IF i > Len(lines) THEN <<>>
        ELSE (IF Skip(ToLowerCase(Trim(lines[i]))) THEN <<>>
              ELSE Of(Cardinality(Hits(lines[i]))))
                \o ForbiddenFrom(lines, i + 1, forbidden, whitelist)

checkForbiddenTerms(lines, forbidden, whitelist) == ForbiddenFrom(lines, 1, forbidden, whitelist)

\* the level of a line matched by /^(#{1,6})\s+(.+)$/, or 0: after the '#'
\* comes white space, then at least one character, none of them a line
\* terminator ('.' matches no carriage return)
HeadingLevel(line) ==
    LET Rest(h, rest) ==
            IF rest # <<>>
            THEN IF \E k \in 1..Len(rest) : rest[k] = "\r" THEN 0 ELSE h
            ELSE IF Len(line) >= h + 2 /\ line[Len(line)] # "\r" THEN h ELSE 0
        Level(h) ==
            IF h >= 1 /\ h <= 6 /\ Len(line) > h /\ IsSpace(line[h + 1])
            THEN Rest(h, TrimStart(Slice(line, h)))
            ELSE 0
    IN  Level(LeadingHashes(line))

RECURSIVE EmptySectionsFrom(_, _, _)
\* checkEmptySections: the loop from line i on.  st holds currentSection #
\* null (open), sectionStartLine, sectionHeadingLevel, sectionHasContent,
\* sectionWasFirst and isFirstHeading
EmptySectionsFrom(lines, i, st) ==
    LET Flag(hasContent) ==
            IF st.open /\ ~hasContent /\ ~st.wasFirst
            THEN <<Issue("info", "empty_section", "", Some(st.startLine))>> ELSE <<>>
        Step(level) ==
            IF level > 0
            THEN Flag(st.hasContent \/ (st.open /\ level > st.level))
                    \o EmptySectionsFrom(lines, i + 1,
                          [open |-> TRUE, startLine |-> i, level |-> level,
                           hasContent |-> FALSE, wasFirst |-> st.isFirst,
                           isFirst |-> FALSE])
            ELSE EmptySectionsFrom(lines, i + 1,
                    IF st.open /\ Len(Trim(lines[i])) > 0
                    THEN [st EXCEPT !.hasContent = TRUE] ELSE st)
    IN  IF i > Len(lines) THEN Flag(st.hasContent) ELSE Step(HeadingLevel(lines[i]))

\* the first heading is checked like the others
checkEmptySections_WithFirst(lines) ==
    EmptySectionsFrom(lines, 1,
        [open |-> FALSE, startLine |-> 0, level |-> 0, hasContent |-> FALSE,
         wasFirst |-> FALSE, isFirst |-> FALSE])

checkEmptySections(lines) ==
    EmptySectionsFrom(lines, 1,
        [open |-> FALSE, startLine |-> 0, level |-> 0, hasContent |-> FALSE,
         wasFirst |-> FALSE, isFirst |-> TRUE])

RECURSIVE DuplicatesFrom(_, _, _, _)
\* checkDuplicateUrls: the loop from link k of line i on; seen holds the URLs
\* in seenUrls
DuplicatesFrom(links, i, k, seen) ==
    IF i > Len(links) THEN <<>>
    ELSE IF k > Len(links[i]) THEN DuplicatesFrom(links, i + 1, 1, seen)
    ELSE IF links[i][k] \in seen
         THEN <<Issue("warning", "duplicate_url", "", Some(i))>>
                 \o DuplicatesFrom(links, i, k + 1, seen)
    ELSE DuplicatesFrom(links, i, k + 1, seen \cup {links[i][k]})

\* a link given twice is an error
checkDuplicateUrls_AsError(links) ==
    LET AsError(issues) ==
            Tuple([k \in 1..Len(issues) |-> [issues[k] EXCEPT !.severity = "error"]])
    IN  AsError(DuplicatesFrom(links, 1, 1, {}))

checkDuplicateUrls(links) == DuplicatesFrom(links, 1, 1, {})

\* the legacy rules alone
lintFile_RulesOnly(filePath, content, config) ==
    LET WithLinks(lines) == lintContent(lines, LinksOfLines(lines))
    IN  WithPath(WithLinks(SplitLines(content)), filePath)

\* lintFile(filePath, content, config): the legacy rules, then the forbidden
\* terms if config.policy.restrictedClaims.enable, then the empty sections,
\* then the duplicate URLs
lintFile(filePath, content, config) ==
    LET claims == config.policy.restrictedClaims
        Run(lines, links) ==
            lintContent(lines, links)
                \o (IF IsSome(claims) /\ Get(claims).enable
                    THEN checkForbiddenTerms(lines, Get(claims).forbidden,
                                             Get(claims).whitelist)
                    ELSE <<>>)
                \o checkEmptySections(lines)
                \o checkDuplicateUrls(links)
        WithLinks(lines) == Run(lines, LinksOfLines(lines))
    IN  WithPath(WithLinks(SplitLines(content)), filePath)

(***************************************************************************)
(* core/check/checker.  files maps a path to the content a read of it      *)
(* returns, None when the read fails (no such file).                       *)
(***************************************************************************)
\* createCheckIssue(severity, code, message, path, context)
createCheckIssue(severity, code, path, context) ==
    [severity |-> severity, code |-> code, path |-> path, line |-> None,
     context |-> context]

countSeverities(issues) ==
    [error |-> Cardinality({i \in 1..Len(issues) : issues[i].severity = "error"}),
     warning |-> Cardinality({i \in 1..Len(issues) : issues[i].severity = "warning"}),
     info |-> Cardinality({i \in 1..Len(issues) : issues[i].severity = "info"})]

\* fs.readFile in a try block: every failure reads as a missing file
checkFile(files, filePath) ==
    IF IsSome(files[filePath]) THEN [exists |-> TRUE, content |-> Get(files[filePath])]
    ELSE [exists |-> FALSE, content |-> <<>>]

\* the content, or None (null) when the read fails
readFileContent(files, filePath) == files[filePath]

\* the default of maxContextLines
MaxContextLines == 5

RECURSIVE DiffFrom(_, _, _, _)
\* compareContent: the loop from line i on while fewer than maxContextLines
\* differences are listed; a context line is [side, lineNum, line]
DiffFrom(expectedLines, actualLines, i, budget) ==
    LET HasE == i <= Len(expectedLines)
        HasA == i <= Len(actualLines)
    IN  IF (~HasE /\ ~HasA) \/ budget = 0 THEN <<>>
        ELSE IF HasE /\ HasA /\ expectedLines[i] = actualLines[i]
             THEN DiffFrom(expectedLines, actualLines, i + 1, budget)
        ELSE (IF HasE THEN <<[side |-> "Expected", lineNum |-> i, line |-> expectedLines[i]]>>
              ELSE <<>>)
               \o (IF HasA THEN <<[side |-> "Actual", lineNum |-> i, line |-> actualLines[i]]>>
                   ELSE <<>>)
               \o DiffFrom(expectedLines, actualLines, i + 1, budget - 1)

\* every differing line is listed, whatever maxContextLines is
compareContent_NoLimit(expected, actual, maxContextLines) ==
    IF expected = actual THEN [match |-> TRUE, context |-> <<>>]
    ELSE [match |-> FALSE,
          context |-> DiffFrom(SplitLines(expected), SplitLines(actual), 1,
                               Len(expected) + Len(actual) + 1)]

compareContent(expected, actual, maxContextLines) ==
    IF expected = actual THEN [match |-> TRUE, context |-> <<>>]
    ELSE [match |-> FALSE,
          context |-> DiffFrom(SplitLines(expected), SplitLines(actual), 1, maxContextLines)]

\* the presence check and the lint of one required file:
\* [issues, checked, missing]
CheckRequiredFile(read, filePath, config) ==
    IF ~read.exists
    THEN [issues |-> <<createCheckIssue("error", "file_missing", filePath, None)>>,
          checked |-> 0, missing |-> 1]
    ELSE IF read.content = <<>>
    THEN [issues |-> <<createCheckIssue("warning", "file_empty", filePath, None)>>,
          checked |-> 1, missing |-> 0]
    ELSE [issues |-> lintFile(filePath, read.content, config), checked |-> 1, missing |-> 0]

\* the presence check of the optional citations file
CheckOptionalFile(files, citationsPath) ==
    IF ~IsSome(citationsPath) \/ Get(citationsPath) = ""
    THEN [issues |-> <<>>, checked |-> 0, missing |-> 0]
    ELSE IF ~checkFile(files, Get(citationsPath)).exists
    THEN [issues |-> <<createCheckIssue("warning", "file_missing", Get(citationsPath), None)>>,
          checked |-> 0, missing |-> 1]
    ELSE [issues |-> <<>>, checked |-> 1, missing |-> 0]

\* the exit code of a result, from the counts of its issues
ExitCodeOf(counts, failOn) ==
    IF counts.error > 0 THEN 2
    ELSE IF failOn = "warn" /\ counts.warning > 0 THEN 1
    ELSE 0

\* checkGeneratedFiles(options) with the paths of config.output.paths
checkGeneratedFiles(config, failOn, files) ==
    LET paths == config.output.paths
        Result(issues, filesChecked, filesMissing, severityCounts) ==
            [issues |-> issues,
             summary |-> [errors |-> severityCounts.error,
                          warnings |-> severityCounts.warning,
                          info |-> severityCounts.info,
                          filesChecked |-> filesChecked,
                          filesMissing |-> filesMissing,
                          filesMismatch |-> 0],
             exitCode |-> ExitCodeOf(severityCounts, failOn)]
        Count(issues, filesChecked, filesMissing) ==
            Result(issues, filesChecked, filesMissing, countSeverities(issues))
        Collect(a, b, c) ==
            Count(a.issues \o b.issues \o c.issues,
                  a.checked + b.checked + c.checked,
                  a.missing + b.missing + c.missing)
    IN  Collect(CheckRequiredFile(checkFile(files, paths.llmsTxt), paths.llmsTxt, config),
                CheckRequiredFile(checkFile(files, paths.llmsFullTxt), paths.llmsFullTxt,
                                  config),
                CheckOptionalFile(files, paths.citations))

\* the diff of one required file against its expected content
CompareRequiredFile(content, filePath, expected, maxContextLines) ==
    LET Mismatch(compareResult) ==
            IF ~compareResult.match
            THEN <<createCheckIssue("error", "file_mismatch", filePath,
                                    Some(compareResult.context))>>
            ELSE <<>>
    IN  IF content = None
        THEN <<createCheckIssue("error", "file_missing", filePath, None)>>
        ELSE IF Get(content) = <<>>
        THEN <<createCheckIssue("warning", "file_empty", filePath, None)>>
        ELSE Mismatch(compareContent(expected, Get(content), maxContextLines))

\* the second file is compared only if the first one raised no issue
checkFilesAgainstExpected_StopAtFirst(files, llmsTxtPath, llmsFullTxtPath, expected, maxContextLines) ==
    LET Then(first) ==
            IF first # <<>> THEN first
            ELSE CompareRequiredFile(readFileContent(files, llmsFullTxtPath),
                                     llmsFullTxtPath, expected.llmsFullTxt, maxContextLines)
    IN  Then(CompareRequiredFile(readFileContent(files, llmsTxtPath), llmsTxtPath,
                                 expected.llmsTxt, maxContextLines))

\* expected is [llmsTxt, llmsFullTxt], the two expected contents
checkFilesAgainstExpected(files, llmsTxtPath, llmsFullTxtPath, expected, maxContextLines) ==
    CompareRequiredFile(readFileContent(files, llmsTxtPath), llmsTxtPath,
                        expected.llmsTxt, maxContextLines)
        \o CompareRequiredFile(readFileContent(files, llmsFullTxtPath), llmsFullTxtPath,
                               expected.llmsFullTxt, maxContextLines)

(***************************************************************************)
(* cli/io/load-config and cli/commands.  The config file is in one of the  *)
(* states "ok", "missing" and "unparsable"; raw is what it holds.          *)
(***************************************************************************)
\* every config is accepted
SchemaAccepts_Any(rawConfig) == TRUE

\* LlmsSeoConfigSchema.safeParse(rawConfig).success, for the one field that
\* the configs here can get wrong: site.baseUrl is a URL with no trailing slash
SchemaAccepts(rawConfig) ==
    ParseUrl(rawConfig.site.baseUrl).ok /\ ~EndsWith(rawConfig.site.baseUrl, <<"/">>)

\* loadConfig: it throws for a file that is missing, that does not parse and
\* that the schema rejects; parseConfig returns no issue
loadConfig(fileState, rawConfig) ==
    IF fileState # "ok" \/ ~SchemaAccepts(rawConfig)
    THEN [threw |-> TRUE, config |-> rawConfig, issues |-> <<>>]
    ELSE [threw |-> FALSE, config |-> rawConfig, issues |-> <<>>]

\* the loop over loadResult.issues returns at the first issue that is not a warning
HasFatalIssue(issues) == \E i \in 1..Len(issues) : issues[i].severity # "warning"

\* ExitCodes
ExitOK == 0
ExitWARN == 1
ExitERROR == 2
ExitCONFIG_NOT_FOUND == 4
ExitINVALID_CONFIG == 5
ExitGENERATION_FAILED == 8

\* the four URLs checkMachineHintsLiveEndpoints requests
LiveUrls(config) ==
    LET Urls(baseUrl) ==
            <<OrElse(config.machineHints.robots, baseUrl \o <<"/","r","o","b","o","t","s",".","t","x","t">>),
              OrElse(config.machineHints.sitemap, baseUrl \o <<"/","s","i","t","e","m","a","p",".","x","m","l">>),
              OrElse(config.machineHints.llmsTxt, baseUrl \o <<"/","l","l","m","s",".","t","x","t">>),
              OrElse(config.machineHints.llmsFullTxt, baseUrl \o <<"/","l","l","m","s","-","f","u","l","l",".","t","x","t">>)>>
    IN  Urls(StripTrailing(config.site.baseUrl, "/"))

RECURSIVE LiveIssuesFrom(_, _, _)
LiveIssuesFrom(urls, failed, k) ==
    IF k > Len(urls) THEN <<>>
    ELSE (IF failed[k] THEN <<createCheckIssue("error", "invalid_url", urls[k], None)>>
          ELSE <<>>) \o LiveIssuesFrom(urls, failed, k + 1)

\* failed[k] tells that every attempt on the k-th URL ended with an error
checkMachineHintsLiveEndpoints(config, failed) == LiveIssuesFrom(LiveUrls(config), failed, 1)

\* the issues are appended and the summary is left as it was
Merge_KeepSummary(result, more, mismatchCount) ==
    [result EXCEPT !.issues = @ \o more]

\* `merged` with more issues: the severities are counted again
Merge(result, more, mismatchCount) ==
    LET Counted(issues, counts) ==
            [result EXCEPT !.issues = issues,
                           !.summary.errors = counts.error,
                           !.summary.warnings = counts.warning,
                           !.summary.info = counts.info,
                           !.summary.filesMismatch = @ + mismatchCount]
        Recount(issues) == Counted(issues, countSeverities(issues))
    IN  IF Len(more) > 0 THEN Recount(result.issues \o more) ELSE result

buildJsonReport(merged, config, canonicalUrls, emitReportPath) ==
    [status |-> IF merged.summary.errors > 0 THEN "error"
                ELSE IF merged.summary.warnings > 0 THEN "warn" ELSE "ok",
     summary |-> merged.summary,
     issues |-> merged.issues,
     files |-> [llmsTxt |-> config.output.paths.llmsTxt,
                llmsFullTxt |-> config.output.paths.llmsFullTxt,
                citations |-> config.output.paths.citations,
                report |-> emitReportPath],
     canonical |-> [total |-> Len(canonicalUrls), urls |-> canonicalUrls]]

\* the paths checkGeneratedFiles reads
PathsRead(config) ==
    {config.output.paths.llmsTxt, config.output.paths.llmsFullTxt}
        \cup (IF IsSome(config.output.paths.citations)
                 /\ Get(config.output.paths.citations) # ""
              THEN {Get(config.output.paths.citations)} ELSE {})

\* what a command leaves: its exit code, the result it printed (None if it
\* printed none), the report it wrote, and the paths it read and wrote
Run(cmd, options, exitCode, result, report, reads, writes) ==
    [cmd |-> cmd, options |-> options, exitCode |-> exitCode, result |-> result,
     report |-> report, reads |-> reads, writes |-> writes]

\* the diff is never skipped
RequiredMissing_Never(result, config) == FALSE

\* whether result reports a required file missing
RequiredMissing(result, config) ==
    \E i \in 1..Len(result.issues) :
        /\ result.issues[i].code = "file_missing"
        /\ \/ result.issues[i].path = config.output.paths.llmsTxt
           \/ result.issues[i].path = config.output.paths.llmsFullTxt

\* checkCommand.  options is [failOn, checkLive, liveFailed, emitReportPath];
\* files is what checkGeneratedFiles reads and later what
\* checkFilesAgainstExpected reads after it
checkCommand(options, fileState, rawConfig, files, later) ==
    LET Finish(config, canonicalBundle, merged) ==
            Run("check", options,
                IF merged.summary.errors > 0 THEN ExitERROR
                ELSE IF options.failOn = "warn" /\ merged.summary.warnings > 0 THEN ExitWARN
                ELSE ExitOK,
                Some(merged),
                IF IsSome(options.emitReportPath)
                THEN Some(buildJsonReport(merged, config, canonicalBundle.canonicalUrls,
                                          Get(options.emitReportPath)))
                ELSE None,
                PathsRead(config),
                IF IsSome(options.emitReportPath) THEN {Get(options.emitReportPath)} ELSE {})
        Live(config, merged) ==
            IF options.checkLive
            THEN Merge(merged, checkMachineHintsLiveEndpoints(config, options.liveFailed), 0)
            ELSE merged
        Mismatches(mismatchIssues) ==
            Cardinality({i \in 1..Len(mismatchIssues) :
                            mismatchIssues[i].code = "file_mismatch"})
        WithMismatches(result, mismatchIssues) ==
            Merge(result, mismatchIssues, Mismatches(mismatchIssues))
        Diff(config, result, canonicalBundle) ==
            IF RequiredMissing(result, config) THEN result
            ELSE WithMismatches(result,
                    checkFilesAgainstExpected(later,
                        config.output.paths.llmsTxt, config.output.paths.llmsFullTxt,
                        [llmsTxt |-> createLlmsTxt(config,
                                         canonicalBundle.canonicalUrls).content,
                         llmsFullTxt |-> createLlmsFullTxt(config,
                                             canonicalBundle.canonicalUrls,
                                             canonicalBundle.manifestItems,
                                             Some(canonicalBundle.entries)).content],
                        MaxContextLines))
        Verify(config, result, canonicalBundle) ==
            IF canonicalBundle.threw
            THEN Run("check", options, ExitERROR, None, None, PathsRead(config), {})
            ELSE Finish(config, canonicalBundle,
                        Live(config, Diff(config, result, canonicalBundle)))
        Loaded(loadResult) ==
            IF loadResult.threw
            THEN Run("check", options, ExitCONFIG_NOT_FOUND, None, None, {}, {})
            ELSE IF HasFatalIssue(loadResult.issues)
            THEN Run("check", options, ExitINVALID_CONFIG, None, None, {}, {})
            ELSE Verify(loadResult.config,
                        checkGeneratedFiles(loadResult.config, options.failOn, files),
                        createCanonicalBundleFromConfig(loadResult.config))
    IN  Loaded(loadConfig(fileState, rawConfig))

RECURSIVE ExtractedItems(_)
\* the loop of extractManifestItems over Object.entries(manifests): only a
\* value that is an array (or has a pages array, which no section object
\* has) gives items, and an item keeps slug, title, description, locales and
\* canonicalOverride
ExtractedItems(manifests) ==
    LET Kept(items) ==
            Tuple([i \in 1..Len(items) |->
                      Item(items[i].slug, items[i].title, items[i].locales,
                           items[i].canonicalOverride)])
    IN  IF manifests = <<>> THEN <<>>
        ELSE (IF Head(manifests).value.isArray THEN Kept(Head(manifests).value.items)
              ELSE <<>>) \o ExtractedItems(Tail(manifests))

extractManifestItems(config) == ExtractedItems(config.manifests)

RECURSIVE FallbackUrls(_, _)
\* the loop of buildCanonicalUrls
FallbackUrls(manifestItems, baseUrl) ==
    IF manifestItems = <<>> THEN <<>>
    ELSE (IF Truthy(Head(manifestItems).canonicalOverride)
          THEN <<Get(Head(manifestItems).canonicalOverride)>>
          ELSE IF Len(Head(manifestItems).slug) > 0
          THEN <<baseUrl \o (IF StartsWith(Head(manifestItems).slug, <<"/">>)
                             THEN Head(manifestItems).slug
                             ELSE <<"/">> \o Head(manifestItems).slug)>>
          ELSE <<>>) \o FallbackUrls(Tail(manifestItems), baseUrl)

\* extractCanonicalUrls(manifestItems, {baseUrl}) reads `manifest.pages.map`
\* of an array, which throws a TypeError; buildCanonicalUrls catches it and
\* returns the URLs of its own loop
buildCanonicalUrls(config, manifestItems) == FallbackUrls(manifestItems, config.site.baseUrl)

\* generateCommand.  options is [dryRun, emitCitations]; the result is the
\* run and the files after it.  createCitationsJsonString({config,
\* canonicalUrls}) gets no manifestItems: `manifestItems.map` throws, and the
\* catch block returns GENERATION_FAILED before anything is written
generateCommand(options, fileState, rawConfig, files) ==
    LET paths == rawConfig.output.paths
        Write(llmsTxtResult, llmsFullTxtResult) ==
            IF options.emitCitations
            THEN [run |-> Run("generate", options, ExitGENERATION_FAILED, None, None, {}, {}),
                  files |-> files]
            ELSE IF options.dryRun
            THEN [run |-> Run("generate", options, ExitOK, None, None, {}, {}),
                  files |-> files]
            ELSE [run |-> Run("generate", options, ExitOK, None, None, {},
                              {paths.llmsTxt, paths.llmsFullTxt}),
                  files |-> [files EXCEPT ![paths.llmsTxt] = Some(llmsTxtResult.content),
                                          ![paths.llmsFullTxt] =
                                              Some(llmsFullTxtResult.content)]]
        Build(config, manifestItems, canonicalUrls) ==
            Write(createLlmsTxt(config, canonicalUrls),
                  createLlmsFullTxt(config, canonicalUrls, manifestItems, None))
        Extract(config, manifestItems) ==
            Build(config, manifestItems, buildCanonicalUrls(config, manifestItems))
        Loaded(loadResult) ==
            IF loadResult.threw
            THEN [run |-> Run("generate", options, ExitCONFIG_NOT_FOUND, None, None, {}, {}),
                  files |-> files]
            ELSE IF HasFatalIssue(loadResult.issues)
            THEN [run |-> Run("generate", options, ExitINVALID_CONFIG, None, None, {}, {}),
                  files |-> files]
            ELSE Extract(loadResult.config, extractManifestItems(loadResult.config))
    IN  Loaded(loadConfig(fileState, rawConfig))

(***************************************************************************)
(* Spec: the generate and check commands run one after the other on one    *)
(* config file, while the output files are edited between the runs.        *)
(***************************************************************************)
\* one array section, a hub and a restricted-claims policy
PlainConfig ==
    [BaseConfig EXCEPT
        !.manifests = <<PagesSection(<<Item(<<"/","a">>, Some(<<"A">>), None, None)>>)>>,
        !.sections.hubs = <<<<"/","b","l","o","g">>>>,
        !.policy.restrictedClaims =
            Some([enable |-> TRUE, forbidden |-> <<<<"b","e","s","t">>>>, whitelist |-> <<>>])]

\* one section object with a section path, and a citations file
RoutedConfig ==
    [BaseConfig EXCEPT
        !.manifests = <<BlogSection(<<Item(<<"/","x">>, None, None, None)>>)>>,
        !.output.paths.citations = Some("public/citations.json")]

\* a contact.social object with none of its fields
SocialConfig ==
    [PlainConfig EXCEPT
        !.contact.social = Some([twitter |-> None, linkedin |-> None, github |-> None])]

\* a base URL that is no URL
MalformedConfig == [PlainConfig EXCEPT !.site.baseUrl = <<"x",".","i","o">>]

CliConfigs == {PlainConfig, RoutedConfig, SocialConfig, MalformedConfig}

\* the paths of the output files
OutputPaths == {"public/llms.txt", "public/llms-full.txt", "public/citations.json"}

\* a text somebody wrote by hand: a section with no content, a link given
\* twice and a forbidden term
EditedText ==
    Join(<<<<"#"," ","T">>, <<>>, <<"#","#"," ","E">>, <<>>, <<"#","#"," ","L">>, <<>>, <<"-"," ","[","a","]","(","/","x",")">>, <<"-"," ","[","b","]","(","/","x",")">>, <<"t","h","e"," ","b","e","s","t">>, <<>>>>,
         <<"\n">>)

\* what an output file may be made to hold between two runs
EditedContents == {None, Some(<<>>), Some(EditedText)}

\* the option sets of the check command that are tried
CheckOptions ==
    { [failOn |-> "error", checkLive |-> FALSE, liveFailed |-> <<FALSE, FALSE, FALSE, FALSE>>,
       emitReportPath |-> None],
      [failOn |-> "warn", checkLive |-> FALSE, liveFailed |-> <<FALSE, FALSE, FALSE, FALSE>>,
       emitReportPath |-> Some("report.json")],
      [failOn |-> "warn", checkLive |-> TRUE, liveFailed |-> <<FALSE, FALSE, FALSE, FALSE>>,
       emitReportPath |-> None],
      [failOn |-> "error", checkLive |-> TRUE, liveFailed |-> <<FALSE, TRUE, FALSE, FALSE>>,
       emitReportPath |-> None] }

GenerateOptions ==
    { [dryRun |-> FALSE, emitCitations |-> FALSE],
      [dryRun |-> TRUE, emitCitations |-> FALSE],
      [dryRun |-> FALSE, emitCitations |-> TRUE] }

Init ==
    /\ cfg \in CliConfigs
    /\ configFile \in {"ok", "missing", "unparsable"}
    /\ configFile # "ok" => cfg = PlainConfig
    /\ outputFiles = [p \in OutputPaths |-> None]
    /\ run = None
    /\ bundle = None /\ baseline = None
    /\ clock = 0 /\ memo = <<>> /\ last = None
    /\ call = None /\ ret = None

\* `llm-seo check`, started once the result of the previous command has been
\* looked at, or right after a generate
Check ==
    /\ IF run = None THEN TRUE ELSE Get(run).cmd = "generate"
    /\ \E options \in CheckOptions :
          run' = Some(checkCommand(options, configFile, cfg, outputFiles, outputFiles))
    /\ UNCHANGED <<cfg, bundle, baseline, configFile, outputFiles, genVars, fnVars>>

\* `llm-seo generate`
Generate ==
    /\ run = None
    /\ \E options \in GenerateOptions :
          LET Done(r) == run' = Some(r.run) /\ outputFiles' = r.files
          IN  Done(generateCommand(options, configFile, cfg, outputFiles))
    /\ UNCHANGED <<cfg, bundle, baseline, configFile, genVars, fnVars>>

\* somebody rewrites, empties or deletes an output file between two runs
EditFile ==
    /\ \E path \in OutputPaths, content \in EditedContents :
          outputFiles' = [outputFiles EXCEPT ![path] = content]
    /\ run' = None
    /\ UNCHANGED <<cfg, bundle, baseline, configFile, genVars, fnVars>>

Next == Check \/ Generate \/ EditFile

Spec == Init /\ [][Next]_vars

(***************************************************************************)
(* Properties of the check and generate commands (Spec).                   *)
(***************************************************************************)
\* a check run that got as far as its report
CheckDone == IsSome(run) /\ Get(run).cmd = "check" /\ IsSome(Get(run).result)

\* the final issue list of that run
FinalIssues == Get(Get(run).result).issues

HasSeverity(issues, severity) == \E i \in 1..Len(issues) : issues[i].severity = severity

HasIssue(issues, code, path) ==
    \E i \in 1..Len(issues) : issues[i].code = code /\ issues[i].path = path

RequiredPaths == {cfg.output.paths.llmsTxt, cfg.output.paths.llmsFullTxt}

C4_DiffSkippedWhenMissing ==
    CheckDone =>
        ((\E p \in RequiredPaths : HasIssue(FinalIssues, "file_missing", p))
            => ~\E i \in 1..Len(FinalIssues) : FinalIssues[i].code = "file_mismatch")

\* one required file is missing while the other holds a text that is not
\* the expected one
C4_Witness ==
    /\ CheckDone
    /\ \E p, q \in RequiredPaths :
          /\ outputFiles[p] = None
          /\ outputFiles[q] = Some(EditedText)
          /\ HasIssue(FinalIssues, "file_missing", p)

\* the content check expects at path p, recomputed from cfg
ExpectedContent(p) ==
    LET Of(b) ==
            IF p = cfg.output.paths.llmsTxt
            THEN createLlmsTxt(cfg, b.canonicalUrls).content
            ELSE createLlmsFullTxt(cfg, b.canonicalUrls, b.manifestItems,
                                   Some(b.entries)).content
    IN  Of(createCanonicalBundleFromConfig(cfg))

\* whether the config file loads: it is there, it parses, its base URL is a URL
ConfigLoads ==
    /\ configFile = "ok"
    /\ ParseUrl(cfg.site.baseUrl).ok
    /\ ~EndsWith(cfg.site.baseUrl, <<"/">>)

\* the issues of the final list at path p whose code is in codes
IssuesAt(p, codes) ==
    SelectSeq(FinalIssues, LAMBDA issue : issue.path = p /\ issue.code \in codes)

\* the codes of the presence check and of the diff
FileCodes == {"file_missing", "file_empty", "file_mismatch"}

\* C5: a missing, empty or mismatched output file is reported and never
\* thrown: a check run whose config loads returns a complete result, in which
\* each required file has been examined whatever happened to the other one:
\* a missing file has its file_missing error, an empty one its file_empty
\* warning, a file with content has its lint issues and, unless the diff is
\* skipped, its file_mismatch error exactly when it differs from the expected
\* content; every file read is counted as checked or as missing.
C5_IssuesReportedNotThrown ==
    (IsSome(run) /\ Get(run).cmd = "check" /\ ConfigLoads) =>
        /\ IsSome(Get(run).result)
        /\ Get(run).exitCode \in {0, 1, 2}
        /\ LET summary == Get(Get(run).result).summary
           IN  summary.filesChecked + summary.filesMissing = Cardinality(PathsRead(cfg))
        /\ \A p \in RequiredPaths :
              IF outputFiles[p] = None
              THEN \E i \in 1..Len(FinalIssues) :
                      FinalIssues[i] = createCheckIssue("error", "file_missing", p, None)
              ELSE IF outputFiles[p] = Some(<<>>)
              THEN \E i \in 1..Len(FinalIssues) :
                      FinalIssues[i] = createCheckIssue("warning", "file_empty", p, None)
              ELSE /\ IssuesAt(p, {c \in {FinalIssues[i].code : i \in 1..Len(FinalIssues)} :
                                       c \notin FileCodes})
                        = lintFile(p, Get(outputFiles[p]), cfg)
                   /\ (\A q \in RequiredPaths : outputFiles[q] # None)
                        => (HasIssue(FinalIssues, "file_mismatch", p)
                               <=> Get(outputFiles[p]) # ExpectedContent(p))

\* both required files fail: one is empty, the other differs from the
\* expected content, and both are reported
C5_Witness ==
    /\ CheckDone
    /\ \E p, q \in RequiredPaths :
          /\ outputFiles[p] = Some(<<>>)
          /\ outputFiles[q] = Some(EditedText)
          /\ HasIssue(FinalIssues, "file_empty", p)
          /\ HasIssue(FinalIssues, "file_mismatch", q)
          /\ HasIssue(FinalIssues, "empty_section", q)

\* the content-policy findings of a text: forbidden terms if the policy is
\* enabled, empty sections, duplicate links
PolicyFindings(content) ==
    LET claims == cfg.policy.restrictedClaims
        Of(lines) ==
            (IF IsSome(claims) /\ Get(claims).enable
             THEN checkForbiddenTerms(lines, Get(claims).forbidden, Get(claims).whitelist)
             ELSE <<>>)
                \o checkEmptySections(lines)
                \o checkDuplicateUrls(LinksOfLines(lines))
    IN  Of(SplitLines(content))

\* C6: the content-policy lint runs on every required file that has content,
\* whether or not it matches: the forbidden-term, empty-section and
\* duplicate-link findings of its content are all in the final issue list,
\* in their order, also when the list holds a file_mismatch for that file.
C6_LintRegardlessOfMatch ==
    CheckDone =>
        \A p \in RequiredPaths :
            (outputFiles[p] # None /\ outputFiles[p] # Some(<<>>)) =>
                IssuesAt(p, {"forbidden_term", "empty_section", "duplicate_url"})
                    = WithPath(PolicyFindings(Get(outputFiles[p])), p)

\* a file that differs from the expected content has its three kinds of
\* policy issue next to its file_mismatch
C6_Witness ==
    /\ CheckDone
    /\ \E p \in RequiredPaths :
          /\ HasIssue(FinalIssues, "file_mismatch", p)
          /\ HasIssue(FinalIssues, "forbidden_term", p)
          /\ HasIssue(FinalIssues, "empty_section", p)
          /\ HasIssue(FinalIssues, "duplicate_url", p)

\* a config file that is missing or does not parse, or a base URL that is no URL
FatalConfig == configFile # "ok" \/ ~ParseUrl(cfg.site.baseUrl).ok

C3_CheckAgreesWithGenerate ==
    (CheckDone /\ ConfigLoads
        /\ generateCommand([dryRun |-> FALSE, emitCitations |-> FALSE],
                           configFile, cfg, outputFiles).files = outputFiles)
      => ~\E i \in 1..Len(FinalIssues) : FinalIssues[i].code = "file_mismatch"

(***************************************************************************)
(* SpecGen: a caller of the library holds one config and one bundle and    *)
(* calls the generators and the checker on them again and again, in any    *)
(* order, while the clock goes on.  memo keeps, for each kind of call, its *)
(* first result and whether it was made again; last is the latest call.    *)
(***************************************************************************)
\* PlainConfig with two pages and a blog section
TwoPageConfig ==
    [PlainConfig EXCEPT !.manifests =
        <<PagesSection(<<Item(<<"/","b">>, None, None, None),
                         Item(<<"/","a">>, Some(<<"A">>), None, None)>>),
          BlogSection(<<Item(<<"/","x">>, None, None, None)>>)>>]

GenConfigs == {PlainConfig, RoutedConfig, SocialConfig, TwoPageConfig}

\* the timestamp a caller injects
FixedTimestamp == <<"2","0","2","0","-","0","2","-","0","2","T","0","2",":","0","2",":","0","2",".","0","0","0","Z">>

\* the section name a caller passes to the citation index
CitationsSection == <<"a","l","l">>

\* the kinds of call whose result the clock must not change
FixedKinds == {"brief", "full", "citations"}

CallKinds == FixedKinds \cup {"citationsNow", "check"}

InitGen ==
    /\ cfg \in GenConfigs
    /\ bundle = Some(createCanonicalBundleFromConfig(cfg))
    /\ baseline = None
    /\ configFile = "ok" /\ run = None
    /\ outputFiles = [p \in OutputPaths |-> None]
    /\ clock = 0
    /\ memo = [k \in CallKinds |-> [first |-> None, again |-> FALSE]]
    /\ last = None
    /\ call = None /\ ret = None

\* a call of kind k has returned result
Returned(k, result) ==
    /\ last' = Some([kind |-> k, result |-> result])
    /\ memo' = [memo EXCEPT ![k] =
                   [first |-> IF @.first = None THEN Some(result) ELSE @.first,
                    again |-> @.first # None]]
    /\ UNCHANGED <<cfg, bundle, baseline, cliVars, clock, fnVars>>

\* time passes
Tick ==
    /\ clock < MaxClock
    /\ clock' = clock + 1
    /\ UNCHANGED <<cfg, bundle, baseline, cliVars, memo, last, fnVars>>

\* createLlmsTxt({ config, canonicalUrls })
CallBrief == Returned("brief", createLlmsTxt(cfg, Get(bundle).canonicalUrls))

\* createLlmsFullTxt({ config, canonicalUrls, manifestItems })
CallFull ==
    Returned("full", createLlmsFullTxt(cfg, Get(bundle).canonicalUrls,
                                       Get(bundle).manifestItems, None))

\* createCitationsJson({ config, manifestItems, sectionName, fixedTimestamp })
CallCitations ==
    Returned("citations", createCitationsJson(cfg, Get(bundle).manifestItems,
                                              CitationsSection, Some(FixedTimestamp), clock))

\* createCitationsJson({ config, manifestItems, sectionName })
CallCitationsNow ==
    Returned("citationsNow", createCitationsJson(cfg, Get(bundle).manifestItems,
                                                 CitationsSection, None, clock))

\* checkGeneratedFiles(config, failOn)
CallCheck ==
    \E failOn \in {"warn", "error"} :
        Returned("check", checkGeneratedFiles(cfg, failOn, outputFiles))

NextGen == Tick \/ CallBrief \/ CallFull \/ CallCitations \/ CallCitationsNow \/ CallCheck

SpecGen == InitGen /\ [][NextGen]_vars

\* C2: with a fixed config, fixed bundle inputs and a fixed injected
\* timestamp, every call of a generator (brief, full, citation index)
\* returns what the first call of that generator returned: the same content,
\* byte size and line count, whatever was called and however far the clock
\* went in between.
C2_RepeatedCallsAgree ==
    (IsSome(last) /\ Get(last).kind \in FixedKinds) =>
        /\ IsSome(memo[Get(last).kind].first)
        /\ Get(last).result = Get(memo[Get(last).kind].first)

\* a generator is called again after the clock has moved and after every
\* other kind of call has been made
C2_Witness ==
    /\ IsSome(last) /\ Get(last).kind = "citations"
    /\ memo["citations"].again
    /\ clock = MaxClock
    /\ \A k \in CallKinds : IsSome(memo[k].first)

(***************************************************************************)
(* core/canonical/canonical-from-manifest.ts, the older builder kept in    *)
(* the same file: locale prefix or subdomain only, no route styles.        *)
(***************************************************************************)
buildLocalePrefix(locale, strategy, defaultLocale) ==
    IF strategy = "none" THEN <<>>
    ELSE IF strategy = "subdomain" THEN <<>>
    ELSE IF strategy = "prefix" /\ locale = defaultLocale THEN <<>>
    ELSE <<"/">> \o locale

\* options: [baseUrl, routePrefix, defaultLocale, trailingSlash, localeStrategy]
createCanonicalUrlForItemLegacy(item, options) ==
    LET defaultLocale == options.defaultLocale
        Parts(localePrefix) ==
            (IF Len(localePrefix) > 0 THEN <<localePrefix>> ELSE <<>>)
               \o (IF Truthy(options.routePrefix) THEN <<Get(options.routePrefix)>> ELSE <<>>)
               \o <<item.slug>>
        Build(locale) ==
            normalizeUrl(buildBaseUrlWithSubdomain(options.baseUrl, locale,
                                                   options.localeStrategy, defaultLocale),
                         joinUrlParts(Parts(buildLocalePrefix(locale, options.localeStrategy,
                                                              defaultLocale))),
                         options.trailingSlash, TRUE, TRUE)
    IN  IF IsSome(item.canonicalOverride) /\ Len(Get(item.canonicalOverride)) > 0
        THEN Get(item.canonicalOverride)
        ELSE Build(OrElse(selectCanonicalLocale(defaultLocale,
                                                OrElse(item.locales, <<defaultLocale>>)),
                          defaultLocale))

(***************************************************************************)
(* SpecFn: one call of a pure function of the library.  The arguments are  *)
(* drawn from the sets below; the call then returns.                       *)
(***************************************************************************)
En == <<"e","n">>
De == <<"d","e">>
Fr == <<"f","r">>
BlogPath == <<"/","b","l","o","g">>

\* slugs: section-relative, with the section path in front, without a
\* leading slash and with a trailing one, with a query, with a fragment
FnSlugs == {<<"/","p","o","s","t">>, <<"/","b","l","o","g","/","p","o","s","t">>, <<"p","o","s","t","/">>, <<"/","a","?","x","=","1">>, <<"/","p","#","h">>}

FnLocales == {None, Some(<<En>>), Some(<<De>>), Some(<<Fr, De>>), Some(<<De, En>>)}

FnOverrides == {None, Some(<<"h","t","t","p","s",":","/","/","O",".","i","o","/","A","/","?","q","=","1","#","h">>)}

FnBaseUrls == {BaseUrl, <<"h","t","t","p","s",":","/","/","X",".","i","o",":","4","4","3","/","?","q","=","1","#","h">>}

TrailingSlashPolicies == {"always", "never", "preserve"}

LocaleStrategies == {"prefix", "subdomain", "none"}

\* how a section is placed: not at all, by the older routePrefix, by sectionPath
FnSections ==
    { [routePrefix |-> None, sectionPath |-> None],
      [routePrefix |-> Some(BlogPath), sectionPath |-> None],
      [routePrefix |-> None, sectionPath |-> Some(BlogPath)] }

\* the route style of a section; custom comes with its pathnameFor
FnRoutes ==
    { [routeStyle |-> None, pathnameFor |-> None],
      [routeStyle |-> Some("prefix"), pathnameFor |-> None],
      [routeStyle |-> Some("suffix"), pathnameFor |-> None],
      [routeStyle |-> Some("locale-segment"), pathnameFor |-> None],
      [routeStyle |-> Some("custom"), pathnameFor |-> Some("custom")] }

CanonicalUrlCalls ==
    { [fn |-> "createCanonicalUrlForItem",
       item |-> Item(slug, None, locales, override),
       options |-> [baseUrl |-> baseUrl, routePrefix |-> section.routePrefix,
                    defaultLocale |-> En, trailingSlash |-> trailingSlash,
                    localeStrategy |-> localeStrategy, routeStyle |-> route.routeStyle,
                    sectionName |-> None, sectionPath |-> section.sectionPath,
                    pathnameFor |-> route.pathnameFor]] :
        slug \in FnSlugs, locales \in FnLocales, override \in FnOverrides,
        baseUrl \in FnBaseUrls, section \in FnSections, route \in FnRoutes,
        trailingSlash \in TrailingSlashPolicies, localeStrategy \in LocaleStrategies }

FnPaths ==
    { <<>>, <<"/">>, <<"a">>, <<"/","a","/">>, <<"/","/","a","/","/","b">>, <<"/","a","/",".","/","b">>, <<"/","a","/",".",".","/","b">>, <<"/",".",".","/","a">>, <<"/","a","/",".",".">>,
      <<"a","/",".",".","/",".",".","/","b","/">>, <<"/","a","/","b","/">>, <<"/",".","/">>, <<"/","a","/",".",".",".","/","b">>, <<"/","a","?","x","=","1">>, <<"/","p","#","h">> }

NormalizePathCalls ==
    { [fn |-> "normalizePath", path |-> path, preserveTrailingSlash |-> preserve] :
        path \in FnPaths, preserve \in BOOLEAN }

NormalizeUrlCalls ==
    { [fn |-> "normalizeUrl", baseUrl |-> baseUrl, path |-> path,
       trailingSlash |-> trailingSlash, stripQuery |-> strip, stripHash |-> strip] :
        baseUrl \in FnBaseUrls, path \in FnPaths,
        trailingSlash \in TrailingSlashPolicies, strip \in BOOLEAN }

\* locale codes, among them an empty one and two that collate as equal
LocalePool == {En, De, Fr, <<>>, <<"x","1">>, <<"x","0","1">>}

\* the most locales in a list
MaxLocales == 3

SelectLocaleCalls ==
    { [fn |-> "selectCanonicalLocale", defaultLocale |-> En, availableLocales |-> locales] :
        locales \in UNION {[1..n -> LocalePool] : n \in 0..MaxLocales} }

\* the contact blocks tried: none, an email, a social object without any
\* link, one with a link, one whose only link is the empty string
FnContacts ==
    { [email |-> None, phone |-> None, social |-> None],
      [email |-> Some(<<"a","@","x",".","i","o">>), phone |-> None, social |-> None],
      [email |-> None, phone |-> None,
       social |-> Some([twitter |-> None, linkedin |-> None, github |-> None])],
      [email |-> None, phone |-> None,
       social |-> Some([twitter |-> Some(<<"@","a","c","m","e">>), linkedin |-> None, github |-> None])],
      [email |-> None, phone |-> None,
       social |-> Some([twitter |-> Some(<<>>), linkedin |-> None, github |-> None])] }

CreateLlmsTxtCalls ==
    { [fn |-> "createLlmsTxt",
       config |-> [BaseConfig EXCEPT !.sections.hubs = hubs,
                                     !.policy.geoPolicy = geoPolicy,
                                     !.contact = contact,
                                     !.booking.url = booking,
                                     !.machineHints.robots = robots],
       canonicalUrls |-> canonicalUrls] :
        hubs \in {<<>>, <<BlogPath>>},
        geoPolicy \in {None, Some(<<"E","U"," ","o","n","l","y">>)},
        contact \in FnContacts,
        booking \in {None, Some(<<"h","t","t","p","s",":","/","/","b",".","i","o">>)},
        robots \in {None, Some(<<"h","t","t","p","s",":","/","/","x",".","i","o","/","r","o","b","o","t","s",".","t","x","t">>)},
        canonicalUrls \in {<<>>, <<<<"h","t","t","p","s",":","/","/","x",".","i","o","/","a">>>>} }

\* the text whose lines are the given characters
LinesOf(chars) == Join(Tuple([i \in 1..Len(chars) |-> <<chars[i]>>]), <<"\n">>)

\* texts of one-character lines: one differs from the first in six lines,
\* one in a single line, two are shorter and one is longer
DiffTexts ==
    {LinesOf(<<"A","B","C","D","E","F","G">>), LinesOf(<<"A","X","Y","Z","W","V","U">>), LinesOf(<<"A","B","Q","D","E","F","G">>), LinesOf(<<"A","B">>),
     LinesOf(<<"X">>), LinesOf(<<"A","B","C","D","E","F","G","H">>)}

\* the content of llms-full.txt, which is as expected in these calls
DiffFullText == LinesOf(<<"F","U","L","L">>)

CheckAgainstExpectedCalls ==
    { [fn |-> "checkFilesAgainstExpected", expected |-> expected, actual |-> actual] :
        expected \in DiffTexts, actual \in DiffTexts }

\* texts for the forbidden-term check: the example of the documentation, and
\* one with an upper-case hit, an empty line, a line of blanks, the two
\* policy-definition lines and a whitelisted phrase next to a second hit
TermTexts ==
    {<<"t","h","e"," ","b","e","s","t"," ","p","r","o","v","i","d","e","r">>,
     Join(<<<<"T","h","e"," ","B","E","S","T"," ","o","f"," ","a","l","l">>, <<>>, <<" "," ">>, <<"F","o","r","b","i","d","d","e","n"," ","t","e","r","m","s",":"," ","b","e","s","t">>, <<" "," ","e","x","c","e","p","t","i","o","n","s",":"," ","b","e","s","t"," ","p","r","o","v","i","d","e","r">>, <<"b","e","s","t"," ","p","r","o","v","i","d","e","r"," ","i","s"," ","b","e","s","t">>, <<"r","e","s","t">>>>, <<"\n">>)}

TermLists == {<<<<"b","e","s","t">>>>, <<<<"B","e","s","t">>, <<"r","e","s","t">>>>, <<<<>>>>, <<<<" ">>>>}

TermWhitelists == {<<>>, <<<<"b","e","s","t"," ","p","r","o","v","i","d","e","r">>>>, <<<<"B","e","s","t"," ","P","r","o","v","i","d","e","r">>, <<"e","s","t">>>>, <<<<"p","r","o","v","i","d","e","r">>>>}

ForbiddenTermsCalls ==
    { [fn |-> "checkForbiddenTerms", content |-> content, forbidden |-> forbidden,
       whitelist |-> whitelist] :
        content \in TermTexts, forbidden \in TermLists, whitelist \in TermWhitelists }

\* the lines the texts of the empty-section check are made of: headings of
\* three depths, text, an empty line, and '#x', which is no heading
SectionLines == {<<"#"," ","T">>, <<"#","#"," ","A">>, <<"#","#","#"," ","B">>, <<"x">>, <<>>, <<"#","x">>}

\* the longest text, in lines
MaxSectionLines == 4

EmptySectionsCalls ==
    { [fn |-> "checkEmptySections", content |-> Join(lines, <<"\n">>)] :
        lines \in UNION {[1..n -> SectionLines] : n \in 0..MaxSectionLines} }

FnCalls ==
    CanonicalUrlCalls \cup NormalizePathCalls \cup NormalizeUrlCalls
        \cup SelectLocaleCalls \cup CreateLlmsTxtCalls
        \cup CheckAgainstExpectedCalls \cup ForbiddenTermsCalls \cup EmptySectionsCalls

InitFn ==
    /\ call \in FnCalls
    /\ ret = None
    /\ cfg = BaseConfig /\ bundle = None /\ baseline = None
    /\ configFile = "ok" /\ outputFiles = <<>> /\ run = None
    /\ clock = 0 /\ memo = <<>> /\ last = None

\* the call of function fn returns result
Returns(fn, result) ==
    /\ call.fn = fn
    /\ ret = None
    /\ ret' = Some(result)
    /\ UNCHANGED <<cfg, bundle, baseline, cliVars, genVars, call>>

ReturnNormalizePath ==
    Returns("normalizePath", normalizePath(call.path, call.preserveTrailingSlash))

ReturnNormalizeUrl ==
    Returns("normalizeUrl", normalizeUrl(call.baseUrl, call.path, call.trailingSlash,
                                         call.stripQuery, call.stripHash))

ReturnSelectCanonicalLocale ==
    Returns("selectCanonicalLocale",
            selectCanonicalLocale(call.defaultLocale, call.availableLocales))

ReturnCanonicalUrlForItem ==
    Returns("createCanonicalUrlForItem", createCanonicalUrlForItem(call.item, call.options))

ReturnLlmsTxt ==
    Returns("createLlmsTxt", createLlmsTxt(call.config, call.canonicalUrls))

ReturnCheckAgainstExpected ==
    Returns("checkFilesAgainstExpected",
            checkFilesAgainstExpected(
                [p \in {"public/llms.txt", "public/llms-full.txt"} |->
                    IF p = "public/llms.txt" THEN Some(call.actual) ELSE Some(DiffFullText)],
                "public/llms.txt", "public/llms-full.txt",
                [llmsTxt |-> call.expected, llmsFullTxt |-> DiffFullText],
                MaxContextLines))

ReturnForbiddenTerms ==
    Returns("checkForbiddenTerms",
            checkForbiddenTerms(SplitLines(call.content), call.forbidden, call.whitelist))

ReturnEmptySections ==
    Returns("checkEmptySections", checkEmptySections(SplitLines(call.content)))

NextFn ==
    \/ ReturnNormalizePath
    \/ ReturnNormalizeUrl
    \/ ReturnSelectCanonicalLocale
    \/ ReturnCanonicalUrlForItem
    \/ ReturnLlmsTxt
    \/ ReturnCheckAgainstExpected
    \/ ReturnForbiddenTerms
    \/ ReturnEmptySections

SpecFn == InitFn /\ [][NextFn]_vars

\* the call of fn has returned
HasReturned(fn) == call.fn = fn /\ IsSome(ret)

(***************************************************************************)
(* Properties of the pure functions (SpecFn).                              *)
(***************************************************************************)
\* C11: when the item has a canonicalOverride, createCanonicalUrlForItem
\* returns exactly that string, whatever the base URL, the trailing-slash
\* policy, the locale strategy, the route style, the section path, the slug
\* and the locales are.
C11_OverrideVerbatim ==
    (HasReturned("createCanonicalUrlForItem") /\ IsSome(call.item.canonicalOverride))
        => Get(ret) = Get(call.item.canonicalOverride)

\* an override that no normalization would leave alone, returned for an item
\* with a non-default locale under subdomains, a suffix route and 'always'
C11_Witness ==
    /\ HasReturned("createCanonicalUrlForItem")
    /\ call.item.canonicalOverride = Some(<<"h","t","t","p","s",":","/","/","O",".","i","o","/","A","/","?","q","=","1","#","h">>)
    /\ call.item.locales = Some(<<De>>)
    /\ call.options.localeStrategy = "subdomain"
    /\ call.options.routeStyle = Some("suffix")
    /\ call.options.trailingSlash = "always"
    /\ call.options.sectionPath = Some(BlogPath)
    /\ Get(ret) = <<"h","t","t","p","s",":","/","/","O",".","i","o","/","A","/","?","q","=","1","#","h">>

\* the call built a URL for an item without canonicalOverride
BuiltUrl == HasReturned("createCanonicalUrlForItem") /\ call.item.canonicalOverride = None

\* the path of the URL returned
ReturnedPath == ParseUrl(Get(ret)).pathname

\* the segments of the path of the URL returned
ReturnedSegments == FilterNonEmpty(Split(ReturnedPath, "/"))

\* the section path of the call, None if it has none
CallSection ==
    IF IsSome(call.options.sectionPath) THEN call.options.sectionPath
    ELSE call.options.routePrefix

\* the slugs that stand for the section-relative slug /post
PostSlugs == {<<"/","p","o","s","t">>, <<"/","b","l","o","g","/","p","o","s","t">>, <<"p","o","s","t","/">>}

\* path, with the slash that the policy 'always' puts at its end
WithPolicySlash(path) ==
    IF call.options.trailingSlash = "always" THEN path \o <<"/">> ELSE path

\* C12: for an item whose locale resolves to the non-default locale de, in
\* the section /blog, with section-relative slug /post, the path of the
\* canonical URL is /de/blog/post under routeStyle prefix, /blog/post/de
\* under suffix and /blog/de/post under locale-segment (with a final slash
\* under the policy 'always').
C12_RouteStylePaths ==
    (/\ BuiltUrl
     /\ call.item.locales \in {Some(<<De>>), Some(<<Fr, De>>)}
     /\ call.item.slug \in PostSlugs
     /\ CallSection = Some(BlogPath)
     /\ call.options.routeStyle \in {Some("prefix"), Some("suffix"), Some("locale-segment")})
        => ReturnedPath =
              WithPolicySlash(
                 IF call.options.routeStyle = Some("prefix") THEN <<"/","d","e","/","b","l","o","g","/","p","o","s","t">>
                 ELSE IF call.options.routeStyle = Some("suffix") THEN <<"/","b","l","o","g","/","p","o","s","t","/","d","e">>
                 ELSE <<"/","b","l","o","g","/","d","e","/","p","o","s","t">>)

\* the suffix case of the example
C12_Witness ==
    /\ BuiltUrl
    /\ call.item.locales = Some(<<De>>) /\ call.item.slug = <<"/","p","o","s","t">>
    /\ call.options.sectionPath = Some(BlogPath)
    /\ call.options.routeStyle = Some("suffix")
    /\ call.options.localeStrategy = "prefix"
    /\ Get(ret) = <<"h","t","t","p","s",":","/","/","x",".","i","o","/","b","l","o","g","/","p","o","s","t","/","d","e">>

\* C13: an item whose locales are the default locale alone has no locale
\* segment in its path under routeStyle prefix and under suffix; under
\* locale-segment the selected locale is a segment of the path, right after
\* the section path, for the default locale as for any other.
C13_DefaultLocaleSegment ==
    BuiltUrl =>
        /\ (call.item.locales = Some(<<En>>)
              /\ call.options.routeStyle \in {Some("prefix"), Some("suffix")})
            => ~IsIn(En, ReturnedSegments)
        /\ call.options.routeStyle = Some("locale-segment")
            => LET Selected(locale, at) ==
                       Len(ReturnedSegments) >= at /\ ReturnedSegments[at] = locale
               IN  Selected(IF call.item.locales \in {Some(<<De>>), Some(<<Fr, De>>)}
                            THEN De ELSE En,
                            IF CallSection = None THEN 1 ELSE 2)

\* the default locale shown under locale-segment
C13_Witness ==
    /\ BuiltUrl
    /\ call.item.locales = Some(<<En>>) /\ call.item.slug = <<"/","p","o","s","t">>
    /\ call.options.sectionPath = Some(BlogPath)
    /\ call.options.routeStyle = Some("locale-segment")
    /\ call.options.trailingSlash = "never" /\ call.options.localeStrategy = "prefix"
    /\ Get(ret) = <<"h","t","t","p","s",":","/","/","x",".","i","o","/","b","l","o","g","/","e","n","/","p","o","s","t">>

\* the locale the item of the call resolves to, for the locale lists tried
CallLocale ==
    IF call.item.locales \in {Some(<<De>>), Some(<<Fr, De>>)} THEN De ELSE En

\* C14: under the subdomain locale strategy an item whose locale is not the
\* default one has the locale in front of the host and in no segment of the
\* path.
C14_SubdomainOnly ==
    (BuiltUrl /\ call.options.localeStrategy = "subdomain" /\ CallLocale = De)
        => /\ StartsWith(ParseUrl(Get(ret)).hostname, De \o <<".">>)
           /\ ~IsIn(De, ReturnedSegments)

\* C15: selectCanonicalLocale returns none for a list without a non-empty
\* locale, the default locale when the list holds it, and one of the listed
\* locales otherwise; it returns the same for every other list of the same
\* locales, whatever their order and their repetitions.
C15_LocaleOfTheSet ==
    HasReturned("selectCanonicalLocale") =>
        LET valid == {call.availableLocales[i] : i \in 1..Len(call.availableLocales)} \ {<<>>}
        IN  /\ valid = {} => Get(ret) = None
            /\ call.defaultLocale \in valid => Get(ret) = Some(call.defaultLocale)
            /\ valid # {} => (IsSome(Get(ret)) /\ Get(Get(ret)) \in valid)
            /\ \A other \in SelectLocaleCalls :
                  {other.availableLocales[i] : i \in 1..Len(other.availableLocales)} \ {<<>>}
                        = valid
                    => selectCanonicalLocale(other.defaultLocale, other.availableLocales)
                          = Get(ret)

\* C16: a URL returned by normalizeUrl with its default stripping, and a
\* canonical URL built for an item without canonicalOverride, holds neither
\* '?' nor '#'.
C16_NoQueryNoHash ==
    ((HasReturned("normalizeUrl") /\ call.stripQuery /\ call.stripHash) \/ BuiltUrl)
        => (~IsIn("?", Get(ret)) /\ ~IsIn("#", Get(ret)))

\* the path the caller gave: the path argument, or the slug of the item
OriginalPath == IF call.fn = "normalizeUrl" THEN call.path ELSE call.item.slug

\* the trailing-slash policy of the call
CallPolicy ==
    IF call.fn = "normalizeUrl" THEN call.trailingSlash ELSE call.options.trailingSlash

\* C17: the path of a normalized URL ends with '/' under the policy 'always';
\* under 'never' it does not, unless it is the root; under 'preserve' a path
\* other than the root ends with '/' exactly when the path the caller gave
\* (the slug of the item, for a canonical URL) ends with '/'.  Paths with a
\* '?' or a '#' are left to C16.
C17_TrailingSlashPolicy ==
    ((HasReturned("normalizeUrl") \/ BuiltUrl)
        /\ ~IsIn("?", OriginalPath) /\ ~IsIn("#", OriginalPath)) =>
        /\ CallPolicy = "always" => EndsWith(ReturnedPath, <<"/">>)
        /\ CallPolicy = "never" => (ReturnedPath = <<"/">> \/ ~EndsWith(ReturnedPath, <<"/">>))
        /\ (CallPolicy = "preserve" /\ ReturnedPath # <<"/">>)
              => (EndsWith(ReturnedPath, <<"/">>) <=> EndsWith(OriginalPath, <<"/">>))

\* the segments of a path as given: what stands between its slashes
GivenSegments(path) == FilterNonEmpty(Split(path, "/"))

\* how many of the segments are seg
CountOf(segments, seg) == Cardinality({i \in 1..Len(segments) : segments[i] = seg})

\* C18: normalizePath returns a path that starts with '/', has no two
\* slashes in a row and no segment '.' or '..'.  A path without '..' keeps
\* its other segments in their order; each '..' removes at most one segment
\* and none at the root, so a path that only climbs comes out as '/'.
C18_NormalizedPathShape ==
    HasReturned("normalizePath") =>
        LET Shape(result, given, kept) ==
                /\ StartsWith(result, <<"/">>)
                /\ ~Includes(result, <<"/", "/">>)
                /\ ~IsIn(<<".">>, kept) /\ ~IsIn(<<".", ".">>, kept)
                /\ ~IsIn(<<".", ".">>, given)
                      => kept = SelectSeq(given, LAMBDA seg : seg # <<".">>)
                /\ Len(kept) >= Len(given) - CountOf(given, <<".">>)
                                 - 2 * CountOf(given, <<".", ".">>)
                /\ \A i \in 1..Len(kept) : IsIn(kept[i], given)
        IN  Shape(Get(ret), GivenSegments(call.path), GivenSegments(Get(ret)))

\* a path that climbs above the root and comes down again
C18_Witness ==
    /\ HasReturned("normalizePath")
    /\ call.path = <<"a","/",".",".","/",".",".","/","b","/">> /\ ~call.preserveTrailingSlash
    /\ Get(ret) = <<"/","b">>

\* the option set of the older builder: no route style, section path or
\* custom path function
LegacyOptions ==
    /\ call.options.routeStyle = None
    /\ call.options.sectionPath = None
    /\ call.options.pathnameFor = None

\* the slug of the call begins with the route prefix of the call
SlugUnderPrefix ==
    /\ IsSome(call.options.routePrefix)
    /\ LET Under(slug, prefix) == slug = prefix \/ StartsWith(slug, prefix \o <<"/">>)
       IN  Under(IF StartsWith(call.item.slug, <<"/">>) THEN call.item.slug
                 ELSE <<"/">> \o call.item.slug,
                 Get(call.options.routePrefix))

\* C19 as stated: with the option set of the older builder the route-style
\* aware builder returns what the older builder returns.
C19_SameAsLegacy ==
    (HasReturned("createCanonicalUrlForItem") /\ LegacyOptions)
        => Get(ret) = createCanonicalUrlForItemLegacy(call.item, call.options)

\* C19: with the option set of the older builder, and a slug that does not
\* begin with the route prefix, the route-style aware builder returns what
\* the older builder returns; so it does with routeStyle prefix and the
\* locale strategy prefix.
C19_SameAsLegacyOffPrefix ==
    (HasReturned("createCanonicalUrlForItem") /\ ~SlugUnderPrefix
        /\ call.options.sectionPath = None /\ call.options.pathnameFor = None
        /\ (call.options.routeStyle = None
              \/ (call.options.routeStyle = Some("prefix")
                    /\ call.options.localeStrategy = "prefix")))
        => Get(ret) = createCanonicalUrlForItemLegacy(call.item, call.options)

\* a localized item under a route prefix, with the older option set
C19_Witness ==
    /\ HasReturned("createCanonicalUrlForItem") /\ LegacyOptions
    /\ call.item.slug = <<"/","p","o","s","t">> /\ call.item.locales = Some(<<De>>)
    /\ call.item.canonicalOverride = None
    /\ call.options.routePrefix = Some(BlogPath)
    /\ call.options.localeStrategy = "prefix"
    /\ call.options.trailingSlash = "never"
    /\ Get(ret) = <<"h","t","t","p","s",":","/","/","x",".","i","o","/","d","e","/","b","l","o","g","/","p","o","s","t">>
    /\ Get(ret) = createCanonicalUrlForItemLegacy(call.item, call.options)

\* the lines of the brief document returned
BriefLines == SplitLines(Get(ret).content)

\* C20: in the brief document every section heading ('## ...') is followed,
\* before the next heading and before the end, by at least one line that is
\* not blank.
C20_NoEmptyHeader ==
    HasReturned("createLlmsTxt") =>
        LET NoneEmpty(lines) ==
                \A i \in 1..Len(lines) :
                    StartsWith(lines[i], <<"#", "#", " ">>) =>
                        \E j \in (i + 1)..Len(lines) :
                            /\ Len(Trim(lines[j])) > 0
                            /\ ~StartsWith(lines[j], <<"#">>)
                            /\ \A k \in (i + 1)..(j - 1) : ~StartsWith(lines[k], <<"#">>)
        IN  NoneEmpty(BriefLines)

(***************************************************************************)
(* Properties of the diff against the expected content (SpecFn).           *)
(***************************************************************************)
\* the two lists of lines of the call of checkFilesAgainstExpected
DiffExpectedLines == SplitLines(call.expected)

DiffActualLines == SplitLines(call.actual)

\* the line positions at which the expected and the actual text differ
DifferingPositions ==
    LET Longest(e, a) == IF Len(e) > Len(a) THEN Len(e) ELSE Len(a)
        Differ(e, a) ==
            {k \in 1..Longest(e, a) : k > Len(e) \/ k > Len(a) \/ e[k] # a[k]}
    IN  Differ(DiffExpectedLines, DiffActualLines)

\* the context of the one issue returned
DiffContext == Get(Get(ret)[1].context)

\* the positions the context lists
ListedPositions == {DiffContext[i].lineNum : i \in 1..Len(DiffContext)}

\* the context lists a line of the given side at position k
Lists(side, k) ==
    \E i \in 1..Len(DiffContext) : DiffContext[i].side = side /\ DiffContext[i].lineNum = k

\* the call compares an actual text that differs from the expected one
DiffersFromExpected ==
    HasReturned("checkFilesAgainstExpected") /\ call.actual # call.expected

\* one error file_mismatch issue for the file, at most maxContextLines
\* positions, starting at the first divergence
OneMismatchIssue ==
    /\ Len(Get(ret)) = 1
    /\ Get(ret)[1].code = "file_mismatch"
    /\ Get(ret)[1].severity = "error"
    /\ Get(ret)[1].path = "public/llms.txt"
    /\ IsSome(Get(ret)[1].context)
    /\ Cardinality(ListedPositions) <= MaxContextLines
    /\ ListedPositions # {}
    /\ ListedPositions \subseteq DifferingPositions
    /\ \E k \in ListedPositions : \A d \in DifferingPositions : k <= d

\* C21: a present, non-empty file that differs from the expected content
\* gets one error file_mismatch issue whose context lists at most 5 differing
\* line positions, starting at the first divergence, each of them as a pair
\* 'Expected line k' / 'Actual line k'.
C21_PairedContext ==
    DiffersFromExpected =>
        /\ OneMismatchIssue
        /\ \A k \in ListedPositions : Lists("Expected", k) /\ Lists("Actual", k)

\* C21 (amended): the context lists the first 5 differing positions (all of
\* them when there are fewer), in order; at a position it has 'Expected line
\* k' when the expected text has a line k and 'Actual line k' when the actual
\* text has one, so a position beyond the end of one text is listed with one
\* line only.
C21_ContextOfFirstDifferences ==
    DiffersFromExpected =>
        /\ OneMismatchIssue
        /\ Cardinality(ListedPositions) = MaxContextLines
              \/ ListedPositions = DifferingPositions
        /\ \A k \in ListedPositions : \A d \in DifferingPositions :
              d <= k => d \in ListedPositions
        /\ \A k \in ListedPositions :
              /\ Lists("Expected", k) <=> k <= Len(DiffExpectedLines)
              /\ Lists("Actual", k) <=> k <= Len(DiffActualLines)
        /\ \A i \in 1..Len(DiffContext) :
              /\ DiffContext[i].line =
                    (IF DiffContext[i].side = "Expected" THEN DiffExpectedLines
                     ELSE DiffActualLines)[DiffContext[i].lineNum]
              /\ \A j \in (i + 1)..Len(DiffContext) :
                    \/ DiffContext[i].lineNum < DiffContext[j].lineNum
                    \/ /\ DiffContext[i].lineNum = DiffContext[j].lineNum
                       /\ DiffContext[i].side = "Expected"
                       /\ DiffContext[j].side = "Actual"

\* more than 5 lines differ and one text ends before the other
C21_Witness ==
    /\ DiffersFromExpected
    /\ Cardinality(DifferingPositions) > MaxContextLines
    /\ Len(DiffExpectedLines) # Len(DiffActualLines)
    /\ Cardinality(ListedPositions) = MaxContextLines

(***************************************************************************)
(* Properties of the content-policy checks (SpecFn).                       *)
(***************************************************************************)
\* the lines of the text of the call
CallLines == SplitLines(call.content)

\* the number of issues returned for line i
IssuesOnLine(i) == Cardinality({k \in 1..Len(Get(ret)) : Get(ret)[k].line = Some(i)})

\* a line that lists the forbidden terms or the exceptions
IsPolicyLine(line) ==
    \/ StartsWith(ToLowerCase(Trim(line)), <<"f","o","r","b","i","d","d","e","n"," ","t","e","r","m","s",":">>)
    \/ StartsWith(ToLowerCase(Trim(line)), <<"e","x","c","e","p","t","i","o","n","s",":">>)

\* the line holds the term, in any case
HoldsTerm(line, term) == Includes(ToLowerCase(line), ToLowerCase(term))

\* a whitelist phrase that contains the term occurs on the line
IsWhitelistedOn(line, term) ==
    \E w \in 1..Len(call.whitelist) :
        HoldsTerm(line, call.whitelist[w]) /\ HoldsTerm(call.whitelist[w], term)

\* every issue is a warning forbidden_term with a line, and line i has one
\* issue for each term that is Due(i, term)
ForbiddenIssuesAre(Due(_, _)) ==
    /\ \A k \in 1..Len(Get(ret)) :
          /\ Get(ret)[k].code = "forbidden_term"
          /\ Get(ret)[k].severity = "warning"
          /\ IsSome(Get(ret)[k].line)
          /\ Get(Get(ret)[k].line) \in 1..Len(CallLines)
    /\ \A i \in 1..Len(CallLines) :
          IssuesOnLine(i) =
              Cardinality({t \in 1..Len(call.forbidden) : Due(i, call.forbidden[t])})

\* C22: a forbidden_term issue is raised for a line and a term exactly when
\* the line is non-blank, is no policy-definition line, holds the term in any
\* case, and no whitelist phrase containing the term occurs on the line.
C22_ForbiddenTermIssues ==
    HasReturned("checkForbiddenTerms") =>
        LET Due(i, term) ==
                /\ Len(Trim(CallLines[i])) > 0
                /\ ~IsPolicyLine(CallLines[i])
                /\ HoldsTerm(CallLines[i], term)
                /\ ~IsWhitelistedOn(CallLines[i], term)
        IN  ForbiddenIssuesAre(Due)

\* C22 (amended): the same without the condition on blank lines, which the
\* check does not test: a term that a blank line holds (the empty term, a
\* term of blanks) is reported on it.  'the best provider' with the term
\* 'best' gives one issue, and none once 'best provider' is whitelisted.
C22_ForbiddenTermIssuesOnAnyLine ==
    HasReturned("checkForbiddenTerms") =>
        LET Due(i, term) ==
                /\ ~IsPolicyLine(CallLines[i])
                /\ HoldsTerm(CallLines[i], term)
                /\ ~IsWhitelistedOn(CallLines[i], term)
        IN  /\ ForbiddenIssuesAre(Due)
            /\ call.content = <<"t","h","e"," ","b","e","s","t"," ","p","r","o","v","i","d","e","r">> /\ call.forbidden = <<<<"b","e","s","t">>>> =>
                  /\ call.whitelist = <<>> => Len(Get(ret)) = 1
                  /\ call.whitelist = <<<<"b","e","s","t"," ","p","r","o","v","i","d","e","r">>>> => Len(Get(ret)) = 0

\* a text with a hit, a whitelisted line and policy-definition lines, and a
\* whitelist phrase that suppresses a hit
C22_Witness ==
    /\ HasReturned("checkForbiddenTerms")
    /\ Len(CallLines) > 1
    /\ call.forbidden = <<<<"B","e","s","t">>, <<"r","e","s","t">>>>
    /\ call.whitelist = <<<<"b","e","s","t"," ","p","r","o","v","i","d","e","r">>>>
    /\ IssuesOnLine(1) = 1
    /\ IssuesOnLine(6) = 0
    /\ IssuesOnLine(7) = 1

\* the lines that are headings
HeadingPositions == {i \in 1..Len(CallLines) : HeadingLevel(CallLines[i]) > 0}

\* where the section of the heading at line i ends: the line of the next
\* heading of equal or shallower depth, or the line after the last one
SectionEnd(i) ==
    LET Closing ==
            {j \in HeadingPositions :
                j > i /\ HeadingLevel(CallLines[j]) <= HeadingLevel(CallLines[i])}
    IN  IF Closing = {} THEN Len(CallLines) + 1
        ELSE CHOOSE j \in Closing : \A k \in Closing : j <= k

\* neither text nor a deeper subheading between the heading and that end
HasNothingUnder(i) ==
    \A k \in (i + 1)..(SectionEnd(i) - 1) :
        Len(Trim(CallLines[k])) = 0 /\ k \notin HeadingPositions

\* the heading at line i is the first one of the text
IsFirstHeading(i) == \A j \in HeadingPositions : i <= j

\* C23: a heading is flagged info:empty_section exactly when neither
\* non-blank text nor a deeper subheading occurs between it and the next
\* heading of equal-or-shallower depth (or the end of the text); the first
\* heading of the document is never flagged.  Each flagged heading gets one
\* issue, in the order of the text.
C23_EmptySections ==
    HasReturned("checkEmptySections") =>
        /\ \A k \in 1..Len(Get(ret)) :
              /\ Get(ret)[k].code = "empty_section"
              /\ Get(ret)[k].severity = "info"
              /\ IsSome(Get(ret)[k].line)
              /\ \A m \in (k + 1)..Len(Get(ret)) :
                    Get(Get(ret)[k].line) < Get(Get(ret)[m].line)
        /\ {Get(Get(ret)[k].line) : k \in 1..Len(Get(ret))} =
              {i \in HeadingPositions : ~IsFirstHeading(i) /\ HasNothingUnder(i)}

\* a title without text, a section whose only content is a subheading, and
\* that subheading, which is empty and flagged
C23_Witness ==
    /\ HasReturned("checkEmptySections")
    /\ CallLines = <<<<"#"," ","T">>, <<"#","#"," ","A">>, <<"#","#","#"," ","B">>, <<>>>>
    /\ Len(Get(ret)) = 1
    /\ Get(ret)[1].line = Some(3)

(***************************************************************************)
(* Properties of the check and generate commands (Spec), continued.        *)
(***************************************************************************)
\* the codes of the content-policy findings
PolicyCodes == {"forbidden_term", "duplicate_url", "empty_section"}

\* the generate command ended and the config file could be loaded
GenerateDone == IsSome(run) /\ Get(run).cmd = "generate" /\ ConfigLoads

tempPathOf_InPlace(filePath, uniqueId) == filePath

\* join(dir, `.tmp-${uniqueId}-${baseName}`)
tempPathOf(filePath, uniqueId) ==
    [dir |-> filePath.dir, base |-> <<".tmp-", uniqueId, "-">> \o filePath.base]

\* the destination of the calls
WriteDest == [dir |-> "public", base |-> <<"llms.txt">>]

\* the values randomBytes(8).toString('hex') is drawn from
UniqueIds == {"00", "ff"}

\* the paths of the directory
WritePaths == {WriteDest} \cup {tempPathOf(WriteDest, id) : id \in UniqueIds}

\* what the destination holds before the call: nothing, or an older text
OldContents == {None, Some(<<"o","l","d"," ","t","e","x","t">>)}

WriteFileAtomicCalls ==
    { [fn |-> "writeFileAtomic", filePath |-> WriteDest, content |-> content] :
        content \in {<<"n","e","w">>, <<"n">>, <<>>} }

InitWrite ==
    /\ call \in WriteFileAtomicCalls
    /\ \E old \in OldContents :
          /\ outputFiles = [p \in WritePaths |-> IF p = WriteDest THEN old ELSE None]
          /\ baseline = Some(old)
    /\ run = Some([pc |-> "ensureDir", tempPath |-> None])
    /\ last = None
    /\ ret = None
    /\ cfg = BaseConfig /\ bundle = None /\ configFile = "ok"
    /\ clock = 0 /\ memo = <<>>

\* the writer is at position pc
WriterAt(pc) == Get(run).pc = pc

\* the writer moves to position pc
WriterTo(pc) == run' = Some([Get(run) EXCEPT !.pc = pc])

\* the path of the temporary file
WriterTemp == Get(Get(run).tempPath)

\* the call ends: it returns, or it throws the error it caught
WriterEnds(how) == run' = Some([Get(run) EXCEPT !.pc = "done"]) /\ ret' = Some(how)

\* await ensureDir(dir): the directory is there, or mkdir fails and the call
\* throws before the try block
WriteEnsureDir ==
    /\ WriterAt("ensureDir")
    /\ \/ WriterTo("pickTemp") /\ UNCHANGED ret
       \/ WriterEnds("threw")
    /\ UNCHANGED <<cfg, bundle, baseline, configFile, outputFiles, genVars, call>>

\* the name of the temporary file, from a random id
WritePickTemp ==
    /\ WriterAt("pickTemp")
    /\ \E uniqueId \in UniqueIds :
          run' = Some([pc |-> "open",
                       tempPath |-> Some(tempPathOf(call.filePath, uniqueId))])
    /\ UNCHANGED <<cfg, bundle, baseline, configFile, outputFiles, genVars, fnVars>>

\* writeFile(tempPath, content) creates the file, empty, or fails
WriteOpenTemp ==
    /\ WriterAt("open")
    /\ \/ /\ outputFiles' = [outputFiles EXCEPT ![WriterTemp] = Some(<<>>)]
          /\ WriterTo("write")
       \/ WriterTo("cleanup") /\ UNCHANGED outputFiles
    /\ UNCHANGED <<cfg, bundle, baseline, configFile, genVars, fnVars>>

\* writeFile appends the next part of the content, finds all of it written,
\* or fails half-way (disk full)
WriteTempChunk ==
    /\ WriterAt("write")
    /\ LET Step(written) ==
              \/ /\ Len(written) < Len(call.content)
                 /\ outputFiles' =
                       [outputFiles EXCEPT ![WriterTemp] =
                           Some(Append(written, call.content[Len(written) + 1]))]
                 /\ UNCHANGED run
              \/ /\ Len(written) = Len(call.content)
                 /\ WriterTo("rename")
                 /\ UNCHANGED outputFiles
              \/ WriterTo("cleanup") /\ UNCHANGED outputFiles
       IN  Step(Get(outputFiles[WriterTemp]))
    /\ UNCHANGED <<cfg, bundle, baseline, configFile, genVars, fnVars>>

\* rename(tempPath, filePath): in one step the destination becomes the
\* temporary file, or the rename fails and nothing changes
WriteRename ==
    /\ WriterAt("rename")
    /\ \/ /\ outputFiles' = [[outputFiles EXCEPT ![call.filePath] = outputFiles[WriterTemp]]
                                EXCEPT ![WriterTemp] =
                                    IF WriterTemp = call.filePath THEN @ ELSE None]
          /\ WriterEnds("returned")
       \/ WriterTo("cleanup") /\ UNCHANGED <<outputFiles, ret>>
    /\ UNCHANGED <<cfg, bundle, baseline, configFile, genVars, call>>

\* the catch block: unlink(tempPath), whose failure is ignored, then the
\* error is thrown again
WriteCleanup ==
    /\ WriterAt("cleanup")
    /\ \/ outputFiles' = [outputFiles EXCEPT ![WriterTemp] = None]
       \/ UNCHANGED outputFiles
    /\ WriterEnds("threw")
    /\ UNCHANGED <<cfg, bundle, baseline, configFile, genVars, call>>

\* another process reads the destination
ReadDest ==
    /\ last' = Some(outputFiles[call.filePath])
    /\ UNCHANGED <<cfg, bundle, baseline, cliVars, clock, memo, fnVars>>

NextWrite ==
    \/ WriteEnsureDir
    \/ WritePickTemp
    \/ WriteOpenTemp
    \/ WriteTempChunk
    \/ WriteRename
    \/ WriteCleanup
    \/ ReadDest

SpecWrite == InitWrite /\ [][NextWrite]_vars

\* C25: writeFileAtomic writes to a temporary file in the directory of the
\* destination and renames it onto the destination: whenever the destination
\* is read it holds the complete previous content or the complete new one;
\* if the write or the rename fails the destination is left as it was, and
\* after a successful call it holds the new content.
C25_AtomicWrite ==
    /\ IsSome(last) => Get(last) \in {Get(baseline), Some(call.content)}
    /\ outputFiles[call.filePath] \in {Get(baseline), Some(call.content)}
    /\ IsSome(Get(run).tempPath) =>
          WriterTemp.dir = call.filePath.dir /\ WriterTemp # call.filePath
    /\ ret = Some("threw") => outputFiles[call.filePath] = Get(baseline)
    /\ ret = Some("returned") =>
          outputFiles[call.filePath] = Some(call.content) /\ outputFiles[WriterTemp] = None
    /\ ret = None => outputFiles[call.filePath] = Get(baseline)

\* the reader saw the previous content while the temporary file was half
\* written, and the call has replaced it since
C25_Witness ==
    /\ ret = Some("returned")
    /\ call.content = <<"n","e","w">>
    /\ Get(baseline) = Some(<<"o","l","d"," ","t","e","x","t">>)
    /\ last = Some(Get(baseline))

(***************************************************************************)
(* SpecRace: the commands of Spec, with another process that rewrites,     *)
(* empties or deletes an output file while a check is running.             *)
(* checkCommand reads the files twice: checkGeneratedFiles reads each of   *)
(* them with checkFile, and checkFilesAgainstExpected reads the two        *)
(* required ones again with readFileContent, with awaits in between.       *)
(* baseline keeps the files as the first pass read them.  A behaviour ends  *)
(* with its check run.                                                     *)
(***************************************************************************)
\* no check has run yet
NotChecked == IF run = None THEN TRUE ELSE Get(run).cmd = "generate"

\* `llm-seo check` while at most one required file is changed between its
\* two passes
CheckWhileEdited ==
    /\ NotChecked
    /\ \E options \in CheckOptions, path \in RequiredPaths :
       \E content \in EditedContents \cup {outputFiles[path]} :
          LET Passes(later) ==
                  /\ run' = Some(checkCommand(options, configFile, cfg, outputFiles, later))
                  /\ outputFiles' = later
          IN  Passes([outputFiles EXCEPT ![path] = content])
    /\ baseline' = Some(outputFiles)
    /\ UNCHANGED <<cfg, bundle, configFile, genVars, fnVars>>

\* an output file is edited before the check starts
EditBeforeCheck == NotChecked /\ EditFile

NextRace == CheckWhileEdited \/ Generate \/ EditBeforeCheck

SpecRace == Init /\ [][NextRace]_vars

\* the files as one snapshot per file could show them: for every path what
\* the first pass read or what the second pass read
Snapshots ==
    {f \in [OutputPaths -> {outputFiles[p] : p \in OutputPaths}
                              \cup {Get(baseline)[p] : p \in OutputPaths}] :
        \A p \in OutputPaths : f[p] \in {Get(baseline)[p], outputFiles[p]}}

\* C26: the result of a check run is the result of a check over a single
\* snapshot of each output file: the presence verdict, the lint issues and
\* the diff verdict of a file refer to one content, also when another
\* process changes the file while the check is running.
C26_SingleSnapshot ==
    CheckDone /\ IsSome(baseline) =>
        \E f \in Snapshots :
            Get(run).result = checkCommand(Get(run).options, configFile, cfg, f, f).result

\* the number of issues of the final list with the given code and path
IssueCount(code, path) ==
    Cardinality({i \in 1..Len(FinalIssues) :
                    FinalIssues[i].code = code /\ FinalIssues[i].path = path})

\* C27: in one check run each output file gives rise to at most one presence
\* issue: an empty required file has exactly one warning file_empty issue and
\* counts once in the warning total, a missing file has exactly one
\* file_missing issue.
C27_OnePresenceIssue ==
    CheckDone =>
        /\ \A p \in PathsRead(cfg) :
              /\ IssueCount("file_missing", p) + IssueCount("file_empty", p) <= 1
              /\ outputFiles[p] = None => IssueCount("file_missing", p) = 1
        /\ \A p \in RequiredPaths :
              outputFiles[p] = Some(<<>>) => IssueCount("file_empty", p) = 1
        /\ Get(Get(run).result).summary.warnings =
              Cardinality({i \in 1..Len(FinalIssues) :
                              /\ FinalIssues[i].severity = "warning"
                              /\ FinalIssues[i].code # "file_empty"})
                + Cardinality({p \in RequiredPaths : outputFiles[p] = Some(<<>>)})

\* the number of issues of the final list that satisfy Is
CountIssues(Is(_)) == Cardinality({i \in 1..Len(FinalIssues) : Is(FinalIssues[i])})

\* the summary of the final result counts what the final issue list holds
SummaryAgrees ==
    LET summary == Get(Get(run).result).summary
        IsError(issue) == issue.severity = "error"
        IsWarning(issue) == issue.severity = "warning"
        IsInfo(issue) == issue.severity = "info"
        IsMismatch(issue) == issue.code = "file_mismatch"
        IsMissing(issue) == issue.code = "file_missing"
    IN  /\ summary.errors = CountIssues(IsError)
        /\ summary.warnings = CountIssues(IsWarning)
        /\ summary.info = CountIssues(IsInfo)
        /\ summary.filesMismatch = CountIssues(IsMismatch)
        /\ summary.filesMissing = CountIssues(IsMissing)

\* C28: in the final result of a check run errors, warnings and info equal
\* the number of issues of each severity, filesMismatch the number of
\* file_mismatch issues and filesMissing the number of file_missing issues,
\* also after the diff issues and the live-check issues have been merged in.
\* (It holds in the runs of Spec; SpecRace has the runs in which a file
\* changes between the two passes.)
C28_SummaryAgrees == CheckDone => SummaryAgrees

(***************************************************************************)
(* SpecLive: the loops of checkMachineHintsLiveEndpoints, one request at a *)
(* time.  call holds the config and the retries option; run is the loop:   *)
(* the index of the URL, attempt, lastError, whether the inner loop was    *)
(* left by break, the issues so far, and log, the outcomes of the requests *)
(* made for each URL; ret is the list returned.                            *)
(***************************************************************************)
\* what a request ends in: a response that is ok, a response that is not, or
\* an exception (no connection, or the timeout of AbortSignal.timeout)
LiveOutcomes == {"ok", "http", "threw"}

\* the values of --retries tried; bin.ts takes any integer, '-1' included
LiveRetries == {-1, 0, 1, 2}

LiveCalls ==
    { [fn |-> "checkMachineHintsLiveEndpoints", config |-> BaseConfig, retries |-> retries] :
        retries \in LiveRetries }

InitLive ==
    /\ call \in LiveCalls
    /\ run = Some([url |-> 1, attempt |-> 0, lastError |-> None, left |-> FALSE,
                   issues |-> <<>>, log |-> <<<<>>, <<>>, <<>>, <<>>>>])
    /\ ret = None
    /\ cfg = BaseConfig /\ bundle = None /\ baseline = None
    /\ configFile = "ok" /\ outputFiles = <<>>
    /\ clock = 0 /\ memo = <<>> /\ last = None

\* the URLs of the call
CallUrls == LiveUrls(call.config)

\* the inner loop goes on: attempt <= retries and no break
LiveLoopGoesOn ==
    /\ ret = None
    /\ Get(run).url <= Len(CallUrls)
    /\ ~Get(run).left
    /\ Get(run).attempt <= call.retries

\* one pass of the inner loop: a request and what it ends in
LiveAttempt ==
    /\ LiveLoopGoesOn
    /\ \E outcome \in LiveOutcomes :
          LET Logged(loop) ==
                  [loop EXCEPT !.log[loop.url] = Append(@, outcome)]
              After(loop) ==
                  IF outcome = "ok"
                  THEN [loop EXCEPT !.lastError = None, !.left = TRUE]
                  ELSE [loop EXCEPT !.lastError = Some(outcome), !.attempt = @ + 1]
          IN  run' = Some(After(Logged(Get(run))))
    /\ UNCHANGED <<cfg, bundle, baseline, configFile, outputFiles, genVars, fnVars>>

\* after the inner loop: the issue if lastError is set, then the next URL
LiveNextUrl ==
    /\ ret = None
    /\ Get(run).url <= Len(CallUrls)
    /\ ~LiveLoopGoesOn
    /\ LET Moved(loop) ==
              [loop EXCEPT
                  !.issues = IF IsSome(loop.lastError)
                             THEN Append(@, createCheckIssue("error", "invalid_url",
                                                             CallUrls[loop.url], None))
                             ELSE @,
                  !.url = @ + 1, !.attempt = 0, !.lastError = None, !.left = FALSE]
       IN  run' = Some(Moved(Get(run)))
    /\ UNCHANGED <<cfg, bundle, baseline, configFile, outputFiles, genVars, fnVars>>

\* return issues
LiveReturn ==
    /\ ret = None
    /\ Get(run).url > Len(CallUrls)
    /\ ret' = Some(Get(run).issues)
    /\ UNCHANGED <<cfg, bundle, baseline, cliVars, genVars, call>>

NextLive == LiveAttempt \/ LiveNextUrl \/ LiveReturn

\* every request ends (at the latest by its timeout), so a step that can be
\* taken is taken
SpecLive == InitLive /\ [][NextLive]_vars /\ WF_vars(NextLive)

\* the outcomes of the requests made for the k-th URL
LiveLog(k) == Get(run).log[k]

\* C29: each machine-hint URL is requested at most retries+1 times and not
\* again after its first successful response, and when the call has returned
\* one error invalid_url issue is reported for a URL exactly when every one
\* of its attempts failed, and none otherwise.
C29_LiveCheck ==
    /\ \A k \in 1..Len(CallUrls) :
          /\ Len(LiveLog(k)) <= call.retries + 1
          /\ \A a \in 1..(Len(LiveLog(k)) - 1) : LiveLog(k)[a] # "ok"
    /\ IsSome(ret) =>
          /\ \A k \in 1..Len(CallUrls) :
                Cardinality({i \in 1..Len(Get(ret)) : Get(ret)[i].path = CallUrls[k]}) =
                    (IF \A a \in 1..Len(LiveLog(k)) : LiveLog(k)[a] # "ok" THEN 1 ELSE 0)
          /\ \A i \in 1..Len(Get(ret)) :
                Get(ret)[i].code = "invalid_url" /\ Get(ret)[i].severity = "error"

\* the call returns
C29_Terminates == <>IsSome(ret)

(***************************************************************************)
(* Properties of the citation index (SpecGen).                             *)
(***************************************************************************)
\* the sources of the citation index returned last
CitationSources == Get(last).result.sources

\* C30: the URL of every source of the citation index is the canonical URL
\* the bundle resolved for its item (section path, route style and locale
\* applied): every entry of the bundle has a source with its canonical URL,
\* and every citation URL is in the canonical URL list of the same config.
C30_CitationUrlsCanonical ==
    (IsSome(last) /\ Get(last).kind = "citations") =>
        /\ Len(CitationSources) = Len(Get(bundle).entries)
        /\ \A i \in 1..Len(CitationSources) :
              \E k \in 1..Len(Get(bundle).canonicalUrls) :
                  Get(bundle).canonicalUrls[k] = CitationSources[i].url
        /\ \A e \in 1..Len(Get(bundle).entries) :
              \E i \in 1..Len(CitationSources) :
                  CitationSources[i].url = Get(bundle).entries[e].canonicalUrl

=============================================================================
